---- MODULE Spec2Model ----
(***************************************************************************)
(* Model of the adaptive difficulty engine of math-adaptive-prototype      *)
(* (src/src/adaptive_engine.py).  Python floats are modelled as exact      *)
(* rationals <<numerator, denominator>> in lowest terms with a positive    *)
(* denominator; Python dicts are modelled as records with the same keys,   *)
(* so that a key the code does not set is absent from the record.          *)
(* Where two computed quantities are exactly equal as rationals (a score   *)
(* that equals its threshold), the float comparison in the program depends *)
(* on rounding; the model decides such ties by the exact values.  The      *)
(* trend comparison of the tracker (acc2 > acc1 + 0.1) is computed in      *)
(* IEEE 754 doubles, as the program computes it.                           *)
(***************************************************************************)
EXTENDS Integers, Sequences, FiniteSets, TLC

VARIABLES
    adaptation_history,              \* AdaptiveEngine.adaptation_history
    pc,                              \* "call": arguments drawn, call pending; "done": call finished
    fn,                              \* the method the pending call is made on
    current_difficulty,              \* argument current_difficulty
    performance_metrics,             \* argument performance_metrics / metrics (a dict)
    recent_attempts,                 \* argument recent_attempts / recent_attempts_list
    attempts_since_last_adjustment,  \* argument attempts_since_last_adjustment
    confidence_score,                \* argument confidence_score of get_dynamic_window
    ret,                             \* outcome of the call: a return value or a raised exception
    username,                        \* PerformanceTracker.username, a sequence of characters
    session_start,                   \* PerformanceTracker.session_start, in seconds
    tracker_attempts,                \* PerformanceTracker.attempts
    tracker_difficulty,              \* PerformanceTracker.current_difficulty
    files,                           \* the files of the sessions directory: path -> document, mtime, saved_by
    clock,                           \* time.time() and datetime.now(), in whole seconds
    main                             \* the counters of the session loop of main (main.py, lines 111-113)

engine == <<adaptation_history, pc, fn, current_difficulty, performance_metrics,
            recent_attempts, attempts_since_last_adjustment, confidence_score, ret>>

tracker == <<username, session_start, tracker_attempts, tracker_difficulty, files, clock>>

vars == <<engine, tracker, main>>

args == <<fn, current_difficulty, performance_metrics, recent_attempts,
          attempts_since_last_adjustment, confidence_score>>

-----------------------------------------------------------------------------
(* Bounds of the explored inputs.                                          *)

MaxLen == 7          \* longest outcome list passed to the engine
MaxTimes == 2        \* longest latency list in a drawn performance_metrics
MaxAttempts == 5     \* largest attempts_since_last_adjustment drawn
MaxTotal == 2        \* largest total_attempts drawn
AccSteps == 20       \* accuracies and confidences are drawn on the grid k/AccSteps
MaxHistory == 3      \* records the adaptation history holds before the calls stop
MaxLog == 20         \* longest log whose learning velocity is taken
MaxSessionLog == 2   \* attempts recorded before a session is saved
MaxTicks == 2        \* seconds that pass in a session
MaxRecentLog == 3    \* attempts recorded while the recent performance is queried
MaxSteadyQuestions == 12  \* questions asked in a session of right answers
MaxQuestions == 7    \* questions asked in a session
MaxSaves == 2        \* sessions saved before the directory is listed for the last time
MaxBreakdownLog == 3 \* attempts recorded before the operation breakdown is taken
MaxWindowLen == 5    \* main passes the outcomes of at most 5 attempts (main.py, line 183)

-----------------------------------------------------------------------------
(* Exact rational arithmetic standing for Python float arithmetic.         *)

Abs(x) == IF x < 0 THEN -x ELSE x

RECURSIVE GCD(_, _)
GCD(a, b) == IF b = 0 THEN a ELSE GCD(b, a % b)

Rat(n, d) ==
    LET s == IF d < 0 THEN -1 ELSE 1
        g == GCD(Abs(n), Abs(d))
    IN  <<(s * n) \div g, (s * d) \div g>>

R(k) == <<k, 1>>
RAdd(a, b) == Rat(a[1] * b[2] + b[1] * a[2], a[2] * b[2])
RSub(a, b) == Rat(a[1] * b[2] - b[1] * a[2], a[2] * b[2])
RMul(a, b) == Rat(a[1] * b[1], a[2] * b[2])
RDiv(a, b) == Rat(a[1] * b[2], a[2] * b[1])
RNeg(a) == <<-a[1], a[2]>>
\* the common factor of the denominators is divided out before the cross
\* multiplication, to keep the products small
RLt(a, b) == a[1] * (b[2] \div GCD(a[2], b[2])) < b[1] * (a[2] \div GCD(a[2], b[2]))
RLe(a, b) == a[1] * (b[2] \div GCD(a[2], b[2])) <= b[1] * (a[2] \div GCD(a[2], b[2]))
RGe(a, b) == RLe(b, a)
RGt(a, b) == RLt(b, a)
RMin(a, b) == IF RLt(b, a) THEN b ELSE a        \* Python min(a, b)
RMax(a, b) == IF RGt(b, a) THEN b ELSE a        \* Python max(a, b)
RFloor(a) == a[1] \div a[2]
RInt(a) == IF a[1] >= 0 THEN a[1] \div a[2] ELSE -((-a[1]) \div a[2])   \* Python int(): toward zero

\* format(x, ".0f"): round to the nearest integer, ties to even
RoundHalfEven(a) ==
    LET f == RFloor(a)
        twice == RSub(RMul(R(2), a), R(2 * f))    \* 2 * fractional part, in [0, 2)
    IN  IF RLt(twice, R(1)) THEN f
        ELSE IF RGt(twice, R(1)) THEN f + 1
        ELSE IF f % 2 = 0 THEN f ELSE f + 1

\* The value of e, with v computed first: Python evaluates an assignment when
\* it executes it, before the statements that use the variable.
After(v, e) == IF v = v THEN e ELSE e

RECURSIVE RSum(_)
RSum(s) == IF s = <<>> THEN R(0) ELSE RAdd(s[1], RSum(Tail(s)))

\* number of indices of s that satisfy the test
Count(s, Test(_)) == Cardinality({i \in 1..Len(s) : Test(i)})

-----------------------------------------------------------------------------
(* IEEE 754 double arithmetic on non-negative values, for the places where  *)
(* the rounding of a float operation decides a comparison.  A double is     *)
(* [m, s], standing for m / 2^s with m an integer below 2^54 held as five   *)
(* limbs of 15 bits, least significant first.                               *)

Limbs == 1..5
BigZero == [i \in Limbs |-> 0]
BigOf(k) == [i \in Limbs |-> IF i = 1 THEN k % 32768 ELSE IF i = 2 THEN k \div 32768 ELSE 0]

RECURSIVE Pow2(_)
Pow2(e) == IF e = 0 THEN 1 ELSE 2 * Pow2(e - 1)
BigPow2(e) == [i \in Limbs |-> IF i = (e \div 15) + 1 THEN Pow2(e % 15) ELSE 0]

\* x * k for a small k
RECURSIVE BigMulFrom(_, _, _, _)
BigMulFrom(x, k, i, carry) ==
    IF i > 5 THEN <<>>
    ELSE <<(x[i] * k + carry) % 32768>> \o BigMulFrom(x, k, i + 1, (x[i] * k + carry) \div 32768)
BigMulSmall(x, k) == BigMulFrom(x, k, 1, 0)

RECURSIVE BigAddFrom(_, _, _, _)
BigAddFrom(x, y, i, carry) ==
    IF i > 5 THEN <<>>
    ELSE <<(x[i] + y[i] + carry) % 32768>> \o BigAddFrom(x, y, i + 1, (x[i] + y[i] + carry) \div 32768)
BigAdd(x, y) == BigAddFrom(x, y, 1, 0)

\* <<x div k, x mod k>> for a small k, limb i downwards with remainder rem carried in
RECURSIVE BigDivFrom(_, _, _, _)
BigDivFrom(x, k, i, rem) ==
    IF i = 0 THEN <<(<<>>), rem>>
    ELSE LET v == rem * 32768 + x[i]
             lower == BigDivFrom(x, k, i - 1, v % k)
         IN  <<Append(lower[1], v \div k), lower[2]>>
BigDivSmall(x, k) == BigDivFrom(x, k, 5, 0)

BigLt(x, y) == \E i \in Limbs : x[i] < y[i] /\ \A j \in Limbs : j > i => x[j] = y[j]

\* round to nearest, ties to even: the quotient q of a division by k that left r
RoundNearestEven(q, r, k) ==
    IF 2 * r > k \/ (2 * r = k /\ q[1] % 2 = 1) THEN BigAdd(q, BigOf(1)) ELSE q

\* the double nearest to a / b, for integers 0 <= a < 2 * b
Double(a, b) ==
    IF a = 0 THEN [m |-> BigZero, s |-> 0]
    ELSE LET k == CHOOSE e \in 0..14 : a * Pow2(e) >= b /\ \A f \in 0..(e - 1) : a * Pow2(f) < b
             d == BigDivSmall(BigMulSmall(BigPow2(52 + k), a), b)
         IN  [m |-> RoundNearestEven(d[1], d[2], b), s |-> 52 + k]

\* the mantissa of x at the scale s >= x.s
Scaled(x, s) == IF x.m = BigZero THEN BigZero ELSE BigMulSmall(x.m, Pow2(s - x.s))

\* x + y, rounded to 53 significant bits
FAdd(x, y) ==
    IF x.m = BigZero THEN y
    ELSE IF y.m = BigZero THEN x
    ELSE LET s == IF x.s > y.s THEN x.s ELSE y.s
             sum == BigAdd(Scaled(x, s), Scaled(y, s))
             drop == CHOOSE e \in 0..14 : BigLt(sum, BigPow2(53 + e))
                                           /\ \A f \in 0..(e - 1) : ~BigLt(sum, BigPow2(53 + f))
             d == BigDivSmall(sum, Pow2(drop))
         IN  [m |-> RoundNearestEven(d[1], d[2], Pow2(drop)), s |-> s - drop]

\* x > y
FGt(x, y) ==
    LET s == IF x.s > y.s THEN x.s ELSE y.s
    IN  BigLt(Scaled(y, s), Scaled(x, s))

-----------------------------------------------------------------------------
(* AdaptiveEngine.__init__                                                 *)

difficulty_order == <<"easy", "medium", "hard">>
base_window == 3
min_window == 2
max_window == 5

accuracy_excellent == <<9, 10>>
accuracy_high == <<4, 5>>
accuracy_medium == <<3, 5>>
accuracy_low == <<1, 2>>
time_fast == <<5, 1>>
time_slow == <<15, 1>>
streak_threshold == 3

\* str.lower() on the tier names that are passed in
Lower(s) ==
    CASE s = "EASY" -> "easy"
      [] s = "Medium" -> "medium"
      [] s = "HARD" -> "hard"
      [] s = "Expert" -> "expert"
      [] OTHER -> s

\* list.index(x): the 0-based position of x; the caller checks InList first
InList(list, x) == \E i \in 1..Len(list) : list[i] = x
Index(list, x) == (CHOOSE i \in 1..Len(list) : list[i] = x /\ \A j \in 1..(i - 1) : list[j] # x) - 1

-----------------------------------------------------------------------------
(* AdaptiveEngine.calculate_confidence_score                               *)

time_consistency_of(times) ==
    IF Len(times) > 1
    THEN LET n == R(Len(times))
             avg_time == RDiv(RSum(times), n)
             sq == [i \in 1..Len(times) |->
                      RMul(RSub(times[i], avg_time), RSub(times[i], avg_time))]
             variance == RDiv(RSum(sq), n)
         IN  After(avg_time, After(variance, RMax(R(0), RSub(R(1), RDiv(variance, R(100))))))
    ELSE <<1, 2>>

\* variant: the flips divided by the number of adjacent pairs
pattern_consistency_by_pairs(attempts) ==
    IF Len(attempts) >= 3
    THEN LET alternating == Count(attempts,
                 LAMBDA i : i < Len(attempts) /\ attempts[i] # attempts[i + 1])
         IN  RSub(R(1), Rat(alternating, Len(attempts) - 1))
    ELSE <<1, 2>>

pattern_consistency_of(attempts) ==
    IF Len(attempts) >= 3
    THEN LET alternating == Count(attempts,
                 LAMBDA i : i < Len(attempts) /\ attempts[i] # attempts[i + 1])
         IN  RSub(R(1), Rat(alternating, Len(attempts)))
    ELSE <<1, 2>>

\* variant: the accuracy term left out of the weighted sum
weighted_confidence_without_accuracy(accuracy, time_consistency, pattern_consistency) ==
    RAdd(RMul(time_consistency, <<1, 4>>), RMul(pattern_consistency, <<1, 4>>))

weighted_confidence(accuracy, time_consistency, pattern_consistency) ==
    RAdd(RAdd(RMul(accuracy, <<1, 2>>), RMul(time_consistency, <<1, 4>>)),
         RMul(pattern_consistency, <<1, 4>>))

\* variant: the weighted score returned without the clamp of line 74
calculate_confidence_score_unclamped(metrics, attempts) ==
    IF attempts = <<>>
    THEN <<1, 2>>
    ELSE LET times == IF "times" \in DOMAIN metrics THEN metrics.times ELSE <<>>
         IN  weighted_confidence(metrics.accuracy, time_consistency_of(times),
                                 pattern_consistency_of(attempts))

calculate_confidence_score(metrics, attempts) ==
    IF attempts = <<>>
    THEN <<1, 2>>
    ELSE LET accuracy == metrics.accuracy
             times == IF "times" \in DOMAIN metrics THEN metrics.times ELSE <<>>
             confidence == weighted_confidence(accuracy, time_consistency_of(times),
                                               pattern_consistency_of(attempts))
         IN  After(confidence, RMin(R(1), RMax(R(0), confidence)))

-----------------------------------------------------------------------------
(* AdaptiveEngine.detect_streak                                            *)

\* the loop of lines 93-97: walk back from index i while the value equals current_result
RECURSIVE streak_walk(_, _, _)
streak_walk(attempts, i, current_result) ==
    IF i >= 1 /\ attempts[i] = current_result
    THEN 1 + streak_walk(attempts, i - 1, current_result)
    ELSE 0

\* variant: a streak counts as significant only above the threshold
detect_streak_above_threshold(attempts) ==
    IF attempts = <<>>
    THEN [type |-> "none", length |-> 0]
    ELSE LET current_result == attempts[Len(attempts)]
             streak_length == 1 + streak_walk(attempts, Len(attempts) - 1, current_result)
         IN  [type |-> IF current_result THEN "hot" ELSE "cold",
              length |-> streak_length,
              is_significant |-> streak_length > streak_threshold]

detect_streak(attempts) ==
    IF attempts = <<>>
    THEN [type |-> "none", length |-> 0]
    ELSE LET current_result == attempts[Len(attempts)]
             streak_length == 1 + streak_walk(attempts, Len(attempts) - 1, current_result)
         IN  [type |-> IF current_result THEN "hot" ELSE "cold",
              length |-> streak_length,
              is_significant |-> streak_length >= streak_threshold]

-----------------------------------------------------------------------------
(* AdaptiveEngine.get_dynamic_window                                       *)

\* difficulty_order.index(...) raises ValueError on a name that is not in the list
KnownTier(difficulty) == InList(difficulty_order, Lower(difficulty))

\* variant: the window without the upper clamp
get_dynamic_window_uncapped(difficulty, confidence) ==
    LET difficulty_factor == Index(difficulty_order, Lower(difficulty))
        confidence_factor == RSub(R(1), confidence)
        window == base_window + difficulty_factor + RInt(RMul(confidence_factor, R(2)))
    IN  IF window > min_window THEN window ELSE min_window

get_dynamic_window(difficulty, confidence) ==
    LET difficulty_factor == Index(difficulty_order, Lower(difficulty))
        confidence_factor == RSub(R(1), confidence)
        window == base_window + difficulty_factor + RInt(RMul(confidence_factor, R(2)))
        capped == IF window < max_window THEN window ELSE max_window
    IN  IF capped > min_window THEN capped ELSE min_window

-----------------------------------------------------------------------------
(* AdaptiveEngine.decide_next_difficulty                                   *)

\* f"{accuracy*100:.0f}" and f"{avg_time:.1f}" (the latter in tenths)
Pct(accuracy) == RoundHalfEven(RMul(accuracy, R(100)))
Tenths(avg_time) == RoundHalfEven(RMul(avg_time, R(10)))

\* variant: the low bucket taken only strictly below the low threshold
accuracy_factor_strict_low(accuracy, confidence) ==
    IF RGe(accuracy, accuracy_excellent)
    THEN [score |-> RMul(R(3), confidence),
          factors |-> << <<"Excellent accuracy", Pct(accuracy)>> >>]
    ELSE IF RGe(accuracy, accuracy_high)
    THEN [score |-> RMul(R(2), confidence),
          factors |-> << <<"High accuracy", Pct(accuracy)>> >>]
    ELSE IF RLt(accuracy, accuracy_low)
    THEN [score |-> RNeg(RMul(R(2), confidence)),
          factors |-> << <<"Low accuracy", Pct(accuracy)>> >>]
    ELSE IF RGe(accuracy, accuracy_medium)
    THEN [score |-> R(0), factors |-> << <<"Steady accuracy", Pct(accuracy)>> >>]
    ELSE [score |-> R(0), factors |-> <<>>]

\* Factor 1, lines 167-178: the score contribution and the rationale entries
accuracy_factor(accuracy, confidence) ==
    IF RGe(accuracy, accuracy_excellent)
    THEN [score |-> RMul(R(3), confidence),
          factors |-> << <<"Excellent accuracy", Pct(accuracy)>> >>]
    ELSE IF RGe(accuracy, accuracy_high)
    THEN [score |-> RMul(R(2), confidence),
          factors |-> << <<"High accuracy", Pct(accuracy)>> >>]
    ELSE IF RLe(accuracy, accuracy_low)
    THEN [score |-> RNeg(RMul(R(2), confidence)),
          factors |-> << <<"Low accuracy", Pct(accuracy)>> >>]
    ELSE IF RGe(accuracy, accuracy_medium)
    THEN [score |-> R(0), factors |-> << <<"Steady accuracy", Pct(accuracy)>> >>]
    ELSE [score |-> R(0), factors |-> <<>>]

\* Factor 2, lines 181-189; reading streak_info['is_significant'] is checked by the caller
streak_factor(streak_info) ==
    IF streak_info.is_significant
    THEN IF streak_info.type = "hot"
         THEN [score |-> RMin(R(2), Rat(streak_info.length, 3)),
               factors |-> << <<"Hot streak", streak_info.length>> >>]
         ELSE [score |-> RNeg(RMin(R(2), Rat(streak_info.length, 3))),
               factors |-> << <<"Cold streak", streak_info.length>> >>]
    ELSE [score |-> R(0), factors |-> <<>>]

\* variant: the speed bonus given up to and including the fast threshold
speed_factor_inclusive(accuracy, avg_time) ==
    IF RGe(accuracy, accuracy_medium)
    THEN IF RLe(avg_time, time_fast)
         THEN [score |-> R(1), factors |-> << <<"Fast responses", Tenths(avg_time)>> >>]
         ELSE IF RGt(avg_time, time_slow)
         THEN [score |-> <<-1, 2>>, factors |-> << <<"Slow responses", Tenths(avg_time)>> >>]
         ELSE [score |-> R(0), factors |-> <<>>]
    ELSE [score |-> R(0), factors |-> <<>>]

\* Factor 3, lines 192-198
speed_factor(accuracy, avg_time) ==
    IF RGe(accuracy, accuracy_medium)
    THEN IF RLt(avg_time, time_fast)
         THEN [score |-> R(1), factors |-> << <<"Fast responses", Tenths(avg_time)>> >>]
         ELSE IF RGt(avg_time, time_slow)
         THEN [score |-> <<-1, 2>>, factors |-> << <<"Slow responses", Tenths(avg_time)>> >>]
         ELSE [score |-> R(0), factors |-> <<>>]
    ELSE [score |-> R(0), factors |-> <<>>]

\* Factor 4, lines 203-208: applied to the score accumulated by factors 1-3
confidence_modifier(score, confidence) ==
    IF RLt(confidence, <<2, 5>>)
    THEN [score |-> RMul(score, <<1, 2>>),
          factors |-> << <<"Low confidence - being conservative">> >>]
    ELSE IF RGt(confidence, <<4, 5>>)
    THEN [score |-> RMul(score, <<6, 5>>),
          factors |-> << <<"High confidence in assessment">> >>]
    ELSE [score |-> score, factors |-> <<>>]

increase_threshold_of(confidence) ==
    RMul(R(2), RSub(R(1), RMul(confidence, <<1, 5>>)))
\* variant: the threshold of a decrease without its sign
decrease_threshold_of_unsigned(confidence) ==
    RMul(R(2), RSub(R(1), RMul(confidence, <<1, 5>>)))
decrease_threshold_of(confidence) ==
    RMul(R(-2), RSub(R(1), RMul(confidence, <<1, 5>>)))

\* variant: an increase that moves two steps up the scale
choose_adjustment_two_steps(current_index, adjustment_score, confidence, attempts, optimal_window) ==
    IF RGe(adjustment_score, increase_threshold_of(confidence)) /\ attempts >= optimal_window
    THEN [new_index |-> IF current_index + 2 < Len(difficulty_order) - 1
                        THEN current_index + 2 ELSE Len(difficulty_order) - 1,
          type |-> "increase"]
    ELSE IF RLe(adjustment_score, decrease_threshold_of(confidence)) /\ attempts >= optimal_window
    THEN [new_index |-> IF current_index - 1 > 0 THEN current_index - 1 ELSE 0,
          type |-> "decrease"]
    ELSE [new_index |-> current_index, type |-> "maintain"]

\* variant: a decrease that does not wait for the window
choose_adjustment_ungated_decrease(current_index, adjustment_score, confidence, attempts, optimal_window) ==
    IF RGe(adjustment_score, increase_threshold_of(confidence)) /\ attempts >= optimal_window
    THEN [new_index |-> IF current_index + 1 < Len(difficulty_order) - 1
                        THEN current_index + 1 ELSE Len(difficulty_order) - 1,
          type |-> "increase"]
    ELSE IF RLe(adjustment_score, decrease_threshold_of(confidence))
    THEN [new_index |-> IF current_index - 1 > 0 THEN current_index - 1 ELSE 0,
          type |-> "decrease"]
    ELSE [new_index |-> current_index, type |-> "maintain"]

\* lines 211-225: the new index and the adjustment type
choose_adjustment(current_index, adjustment_score, confidence, attempts, optimal_window) ==
    IF RGe(adjustment_score, increase_threshold_of(confidence)) /\ attempts >= optimal_window
    THEN [new_index |-> IF current_index + 1 < Len(difficulty_order) - 1
                        THEN current_index + 1 ELSE Len(difficulty_order) - 1,
          type |-> "increase"]
    ELSE IF RLe(adjustment_score, decrease_threshold_of(confidence)) /\ attempts >= optimal_window
    THEN [new_index |-> IF current_index - 1 > 0 THEN current_index - 1 ELSE 0,
          type |-> "decrease"]
    ELSE [new_index |-> current_index, type |-> "maintain"]

\* lines 144-146
insufficient_data(metrics) == metrics.total_attempts < 2

\* The outcome of one call: status "return" with the returned pair, or the
\* exception the call raises.  appended tells whether line 242 was reached.
decide_next_difficulty(difficulty, metrics, attempts_list, attempts) ==
    IF insufficient_data(metrics)
    THEN [status |-> "return", appended |-> FALSE,
          next_difficulty |-> difficulty,
          decision_details |-> [reason |-> "insufficient_data", confidence |-> R(0)]]
    ELSE LET confidence == calculate_confidence_score(metrics, attempts_list)
             streak_info == detect_streak(attempts_list)
         IN  After(confidence,
             IF ~KnownTier(difficulty)
             THEN [status |-> "ValueError", appended |-> FALSE]
             ELSE IF "is_significant" \notin DOMAIN streak_info
             THEN [status |-> "KeyError", appended |-> FALSE]
             ELSE
             LET optimal_window == get_dynamic_window(difficulty, confidence)
                 accuracy == metrics.accuracy
                 avg_time == metrics.avg_time
                 current_index == Index(difficulty_order, Lower(difficulty))
                 f1 == accuracy_factor(accuracy, confidence)
                 f2 == streak_factor(streak_info)
                 f3 == speed_factor(accuracy, avg_time)
                 f4 == confidence_modifier(RAdd(RAdd(f1.score, f2.score), f3.score), confidence)
                 adj == choose_adjustment(current_index, f4.score, confidence,
                                          attempts, optimal_window)
                 next_difficulty == difficulty_order[adj.new_index + 1]
             IN  [status |-> "return", appended |-> TRUE,
                  next_difficulty |-> next_difficulty,
                  decision_details |->
                     [old_difficulty |-> difficulty,
                      new_difficulty |-> next_difficulty,
                      adjustment_score |-> f4.score,
                      confidence |-> confidence,
                      streak |-> streak_info,
                      factors |-> f1.factors \o f2.factors \o f3.factors \o f4.factors,
                      type |-> adj.type,
                      optimal_window |-> optimal_window,
                      attempts_evaluated |-> attempts]])

-----------------------------------------------------------------------------
(* AdaptiveEngine.get_encouragement: the message chosen, by its opening    *)
(* words, or the KeyError of reading a key the streak dict does not have   *)

get_encouragement(metrics, streak_info) ==
    LET accuracy == RMul(metrics.accuracy, R(100))
    IN  IF "is_significant" \notin DOMAIN streak_info
        THEN [status |-> "KeyError"]
        ELSE IF streak_info.is_significant
        THEN IF streak_info.type = "hot"
             THEN [status |-> "return", value |-> <<"ON FIRE!", streak_info.length>>]
             ELSE [status |-> "return", value |-> <<"Don't worry!">>]
        ELSE IF RGe(accuracy, R(90))
        THEN [status |-> "return", value |-> <<"Outstanding work!">>]
        ELSE IF RGe(accuracy, R(75))
        THEN [status |-> "return", value |-> <<"Great job!">>]
        ELSE IF RGe(accuracy, R(60))
        THEN [status |-> "return", value |-> <<"Good effort!">>]
        ELSE [status |-> "return", value |-> <<"Keep practicing!">>]

-----------------------------------------------------------------------------
(* Calls.  The arguments of a call are drawn in the initial state; each    *)
(* action is one call of a method on the engine.                           *)

NoRet == [status |-> "none"]

\* lines 111-113 of main.py
NoCounts == [question_count |-> 0, attempts_since_adjustment |-> 0,
             last_adjustment_question |-> 0]

\* no session loop runs while a method is studied on its own
NoLoop == main = NoCounts

\* no tracker takes part in the calls made on the engine and the generator
NoTracker ==
    /\ username = <<>>
    /\ session_start = 0
    /\ tracker_attempts = <<>>
    /\ tracker_difficulty = "None"
    /\ files = <<>>
    /\ clock = 0

RECURSIVE SeqsUpTo(_, _)
SeqsUpTo(S, n) ==
    IF n = 0 THEN {<<>>}
    ELSE LET shorter == SeqsUpTo(S, n - 1)
         IN  shorter \cup {Append(s, x) : s \in {t \in shorter : Len(t) = n - 1}, x \in S}

Tiers == {"easy", "medium", "hard"}
TierNames == Tiers \cup {"EASY", "Expert"}
Outcomes == SeqsUpTo(BOOLEAN, MaxLen)

\* variant: the new record is put in front of the earlier ones
record_decision_in_front(history, r) ==
    IF r.appended THEN <<r.decision_details>> \o history ELSE history

\* line 242: adaptation_history.append(decision_details), reached only by a
\* call that gets past the early return of lines 144-146 and raises nothing
record_decision(history, r) ==
    IF r.appended THEN Append(history, r.decision_details) ELSE history

\* variant: the tier is taken from the last recorded decision when there is one
DecideNextDifficulty_from_history ==
    /\ pc = "call" /\ fn = "decide_next_difficulty"
    /\ LET tier == IF adaptation_history = <<>> THEN current_difficulty
                   ELSE adaptation_history[Len(adaptation_history)].new_difficulty
           r == decide_next_difficulty(tier, performance_metrics,
                                       recent_attempts, attempts_since_last_adjustment)
       IN  /\ ret' = r
           /\ adaptation_history' = record_decision(adaptation_history, r)
    /\ pc' = "done"
    /\ UNCHANGED args
    /\ UNCHANGED tracker
    /\ UNCHANGED main

\* decide_next_difficulty(current_difficulty, performance_metrics,
\*                        recent_attempts_list, attempts_since_last_adjustment)
DecideNextDifficulty ==
    /\ pc = "call" /\ fn = "decide_next_difficulty"
    /\ LET r == decide_next_difficulty(current_difficulty, performance_metrics,
                                       recent_attempts, attempts_since_last_adjustment)
       IN  /\ ret' = r
           /\ adaptation_history' = record_decision(adaptation_history, r)
    /\ pc' = "done"
    /\ UNCHANGED args
    /\ UNCHANGED tracker
    /\ UNCHANGED main

\* calculate_confidence_score(performance_metrics, recent_attempts)
CalculateConfidenceScore ==
    /\ pc = "call" /\ fn = "calculate_confidence_score"
    /\ ret' = [status |-> "return",
               value |-> calculate_confidence_score(performance_metrics, recent_attempts)]
    /\ pc' = "done"
    /\ UNCHANGED <<adaptation_history, args>>
    /\ UNCHANGED tracker
    /\ UNCHANGED main

\* detect_streak(recent_attempts)
DetectStreak ==
    /\ pc = "call" /\ fn = "detect_streak"
    /\ ret' = [status |-> "return", value |-> detect_streak(recent_attempts)]
    /\ pc' = "done"
    /\ UNCHANGED <<adaptation_history, args>>
    /\ UNCHANGED tracker
    /\ UNCHANGED main

\* get_encouragement(metrics, streak_info) on the streak that detect_streak
\* returned, as main does (main.py, lines 206-208 and 236-239)
GetEncouragement ==
    /\ pc = "done" /\ fn = "detect_streak"
    /\ ret' = get_encouragement(performance_metrics, ret.value)
    /\ fn' = "get_encouragement"
    /\ UNCHANGED <<adaptation_history, pc, current_difficulty, performance_metrics,
                   recent_attempts, attempts_since_last_adjustment, confidence_score>>
    /\ UNCHANGED tracker
    /\ UNCHANGED main

\* get_dynamic_window(current_difficulty, confidence_score)
GetDynamicWindow ==
    /\ pc = "call" /\ fn = "get_dynamic_window"
    /\ ret' = IF KnownTier(current_difficulty)
              THEN [status |-> "return",
                    value |-> get_dynamic_window(current_difficulty, confidence_score)]
              ELSE [status |-> "ValueError"]
    /\ pc' = "done"
    /\ UNCHANGED <<adaptation_history, args>>
    /\ UNCHANGED tracker
    /\ UNCHANGED main

-----------------------------------------------------------------------------
(* Arguments drawn for the calls                                           *)

Grid(lo, hi) == {Rat(k, AccSteps) : k \in lo..hi}
Latencies == {R(3), R(12), R(40)}

\* a performance window as PerformanceTracker.get_recent_performance builds it;
\* the engine reads accuracy, avg_time, total_attempts and times
Metrics(a, t, n, ts) == [accuracy |-> a, avg_time |-> t, total_attempts |-> n, times |-> ts]
MetricsWithoutTimes(a, t, n) == [accuracy |-> a, avg_time |-> t, total_attempts |-> n]
NoMetrics == Metrics(R(0), R(0), 0, <<>>)

\* the outcome lists drawn for decide_next_difficulty: every list the session
\* loop can pass, and the longer unbroken runs
RunsUpTo(n) == {[i \in 1..k |-> b] : k \in 1..n, b \in BOOLEAN}
DecideOutcomes == SeqsUpTo(BOOLEAN, MaxWindowLen) \cup RunsUpTo(MaxLen)
DecideAccuracies == {<<2, 5>>, <<1, 2>>, <<11, 20>>, <<3, 5>>, <<4, 5>>, <<9, 10>>}
DecideAvgTimes == {R(3), R(5), R(15), R(20)}
DecideTimes == {<<R(3), R(3)>>, <<R(3), R(40)>>}

InitDecide ==
    /\ adaptation_history = <<>>
    /\ pc = "call" /\ fn = "decide_next_difficulty"
    /\ current_difficulty \in Tiers
    /\ \E a \in DecideAccuracies, t \in DecideAvgTimes, n \in 1..MaxTotal, ts \in DecideTimes :
          performance_metrics = Metrics(a, t, n, ts)
    /\ recent_attempts \in DecideOutcomes
    /\ attempts_since_last_adjustment \in 2..MaxAttempts
    /\ confidence_score = R(0)
    /\ ret = NoRet
    /\ NoTracker
    /\ NoLoop

InitConfidence ==
    /\ adaptation_history = <<>>
    /\ pc = "call" /\ fn = "calculate_confidence_score"
    /\ current_difficulty = "easy"
    /\ \E a \in Grid(-2, AccSteps + 2) :
          \/ \E ts \in SeqsUpTo(Latencies, MaxTimes) :
                performance_metrics = Metrics(a, R(0), Len(ts), ts)
          \/ performance_metrics = MetricsWithoutTimes(a, R(0), 0)
    /\ recent_attempts \in Outcomes
    /\ attempts_since_last_adjustment = 0
    /\ confidence_score = R(0)
    /\ ret = NoRet
    /\ NoTracker
    /\ NoLoop

InitStreak ==
    /\ adaptation_history = <<>>
    /\ pc = "call" /\ fn = "detect_streak"
    /\ current_difficulty = "easy"
    /\ \E a \in {<<1, 2>>, <<3, 5>>, <<3, 4>>, <<9, 10>>} :
          performance_metrics = Metrics(a, R(0), 0, <<>>)
    /\ recent_attempts \in Outcomes
    /\ attempts_since_last_adjustment = 0
    /\ confidence_score = R(0)
    /\ ret = NoRet
    /\ NoTracker
    /\ NoLoop

InitWindow ==
    /\ adaptation_history = <<>>
    /\ pc = "call" /\ fn = "get_dynamic_window"
    /\ current_difficulty \in TierNames
    /\ performance_metrics = NoMetrics
    /\ recent_attempts = <<>>
    /\ attempts_since_last_adjustment = 0
    /\ confidence_score \in Grid(0, AccSteps)
    /\ ret = NoRet
    /\ NoTracker
    /\ NoLoop

NextStreak == DetectStreak \/ GetEncouragement

SpecDecide == InitDecide /\ [][DecideNextDifficulty]_vars
SpecConfidence == InitConfidence /\ [][CalculateConfidenceScore]_vars
SpecStreak == InitStreak /\ [][NextStreak]_vars
SpecWindow == InitWindow /\ [][GetDynamicWindow]_vars

-----------------------------------------------------------------------------
(* A sequence of calls on one engine.  The caller holds the outcome of the *)
(* call it made (ret); it may repeat that call with the same arguments, and *)
(* calls whose outcome it drops may come in between.                        *)

HistoryTiers == Tiers
HistoryOutcomes == {<<TRUE, TRUE, TRUE>>, <<FALSE, FALSE, FALSE>>}
HistoryMetrics == {Metrics(<<9, 10>>, R(3), n, <<R(3), R(3)>>) : n \in 1..MaxTotal}
HistoryAttempts == {3}

InitHistory ==
    /\ adaptation_history = <<>>
    /\ pc = "call" /\ fn = "decide_next_difficulty"
    /\ current_difficulty \in HistoryTiers
    /\ performance_metrics \in HistoryMetrics
    /\ recent_attempts \in HistoryOutcomes
    /\ attempts_since_last_adjustment \in HistoryAttempts
    /\ confidence_score = R(0)
    /\ ret = NoRet
    /\ NoTracker
    /\ NoLoop

\* the caller makes the same call again, keeping the outcome of the first
RepeatCall ==
    /\ pc = "done" /\ fn = "decide_next_difficulty"
    /\ Len(adaptation_history) < MaxHistory
    /\ pc' = "call"
    /\ UNCHANGED <<adaptation_history, args, ret>>
    /\ UNCHANGED tracker
    /\ UNCHANGED main

\* decide_next_difficulty called with other arguments, its outcome dropped
DiscardedCall ==
    /\ fn = "decide_next_difficulty"
    /\ Len(adaptation_history) < MaxHistory
    /\ \E d \in HistoryTiers, m \in HistoryMetrics, o \in HistoryOutcomes, n \in HistoryAttempts :
          adaptation_history' =
              record_decision(adaptation_history, decide_next_difficulty(d, m, o, n))
    /\ UNCHANGED <<pc, args, ret>>
    /\ UNCHANGED tracker
    /\ UNCHANGED main

NextHistory == DecideNextDifficulty \/ RepeatCall \/ DiscardedCall
SpecHistory == InitHistory /\ [][NextHistory]_vars

-----------------------------------------------------------------------------
(* The calls of the test suite (test_system.py): its performance windows,   *)
(* its outcome lists, every attempts count, and tier names of any spelling. *)

high_perf == Metrics(<<19, 20>>, <<7, 2>>, 4, <<(<<16, 5>>), (<<7, 2>>), (<<18, 5>>), (<<37, 10>>)>>)
low_perf == Metrics(<<2, 5>>, R(12), 3, <<R(10), R(12), R(14)>>)
steady_perf == Metrics(<<7, 10>>, R(8), 3, <<(<<15, 2>>), R(8), (<<17, 2>>)>>)
minimal_perf == Metrics(R(1), R(5), 1, <<R(5)>>)
boundary_perf == Metrics(R(1), R(3), 5, <<R(3), R(3), R(3), R(3), R(3)>>)
lowest_perf == Metrics(<<1, 5>>, R(20), 5, <<R(20), R(20), R(20), R(20), R(20)>>)

ScenarioWindows == {high_perf, low_perf, steady_perf, minimal_perf, boundary_perf, lowest_perf}
ScenarioOutcomes == {<<TRUE, TRUE, TRUE, TRUE>>, <<FALSE, FALSE, TRUE>>, <<TRUE, TRUE, FALSE>>,
                     <<TRUE>>, <<TRUE, TRUE, TRUE, TRUE, TRUE>>,
                     <<FALSE, FALSE, FALSE, FALSE, FALSE>>}

InitScenario ==
    /\ adaptation_history = <<>>
    /\ pc = "call" /\ fn = "decide_next_difficulty"
    /\ current_difficulty \in TierNames
    /\ performance_metrics \in ScenarioWindows
    /\ recent_attempts \in ScenarioOutcomes
    /\ attempts_since_last_adjustment \in 1..MaxAttempts
    /\ confidence_score = R(0)
    /\ ret = NoRet
    /\ NoTracker
    /\ NoLoop

SpecScenario == InitScenario /\ [][DecideNextDifficulty]_vars

-----------------------------------------------------------------------------
(* PuzzleGenerator (src/src/puzzle_generator.py).  A question text is the   *)
(* sequence of its characters.                                              *)

DigitChars == <<"0", "1", "2", "3", "4", "5", "6", "7", "8", "9">>

\* str(n), the decimal digits of an integer
RECURSIVE Digits(_)
Digits(n) ==
    IF n < 10 THEN <<DigitChars[n + 1]>>
    ELSE Append(Digits(n \div 10), DigitChars[(n % 10) + 1])
Str(n) == IF n < 0 THEN <<"-">> \o Digits(-n) ELSE Digits(n)

\* f"{num1} {symbol} {num2}"
Question(num1, symbol, num2) == Str(num1) \o <<" ", symbol, " ">> \o Str(num2)

\* lines 9-13
difficulty_levels ==
    [easy   |-> [range |-> <<1, 10>>,   operations |-> <<"+", "-">>],
     medium |-> [range |-> <<5, 50>>,   operations |-> <<"+", "-", "*">>],
     hard   |-> [range |-> <<10, 100>>, operations |-> <<"+", "-", "*", "/">>]]

\* line 25: difficulty_levels.get(difficulty.lower(), difficulty_levels['easy'])
level_of(difficulty) ==
    IF Lower(difficulty) \in DOMAIN difficulty_levels
    THEN difficulty_levels[Lower(difficulty)]
    ELSE difficulty_levels["easy"]

\* the values the second pair of random.randint calls can return (lines 46-47, 53-54)
second_draws(operation) ==
    CASE operation = "*" -> 2..12
      [] operation = "/" -> 2..10
      [] OTHER -> {0}

\* variant: the answer of a subtraction is computed before the operands are swapped
generate_puzzle_answer_before_swap(difficulty, operation, n1, n2, r1, r2) ==
    CASE operation = "+" -> <<Question(n1, "+", n2), n1 + n2>>
      [] operation = "-" ->
           LET swap == Lower(difficulty) = "easy" /\ n1 < n2
               num1 == IF swap THEN n2 ELSE n1
               num2 == IF swap THEN n1 ELSE n2
           IN  <<Question(num1, "-", num2), n1 - n2>>
      [] operation = "*" -> <<Question(r1, "×", r2), r1 * r2>>
      [] operation = "/" -> <<Question(r1 * r2, "÷", r1), r2>>

\* variant: the operands of an easy subtraction are not swapped
generate_puzzle_without_swap(difficulty, operation, n1, n2, r1, r2) ==
    CASE operation = "+" -> <<Question(n1, "+", n2), n1 + n2>>
      [] operation = "-" -> <<Question(n1, "-", n2), n1 - n2>>
      [] operation = "*" -> <<Question(r1, "×", r2), r1 * r2>>
      [] operation = "/" -> <<Question(r1 * r2, "÷", r1), r2>>

\* lines 33-58, for the operation chosen at line 27, the operands n1, n2 drawn
\* at lines 30-31 and the values r1, r2 drawn at lines 46-47 or 53-54
generate_puzzle(difficulty, operation, n1, n2, r1, r2) ==
    CASE operation = "+" -> <<Question(n1, "+", n2), n1 + n2>>
      [] operation = "-" ->
           LET swap == Lower(difficulty) = "easy" /\ n1 < n2
               num1 == IF swap THEN n2 ELSE n1
               num2 == IF swap THEN n1 ELSE n2
           IN  <<Question(num1, "-", num2), num1 - num2>>
      [] operation = "*" -> <<Question(r1, "×", r2), r1 * r2>>
      [] operation = "/" -> <<Question(r1 * r2, "÷", r1), r2>>

InitPuzzle ==
    /\ adaptation_history = <<>>
    /\ pc = "call" /\ fn = "generate_puzzle"
    /\ current_difficulty \in TierNames
    /\ performance_metrics = NoMetrics
    /\ recent_attempts = <<>>
    /\ attempts_since_last_adjustment = 0
    /\ confidence_score = R(0)
    /\ ret = NoRet
    /\ NoTracker
    /\ NoLoop

\* generate_puzzle(current_difficulty): every result of random.choice and random.randint.
\* For * and / the operands of lines 30-31 are drawn and then overwritten, so
\* the ends of the range stand for all of them.
GeneratePuzzle ==
    /\ pc = "call" /\ fn = "generate_puzzle"
    /\ LET level == level_of(current_difficulty)
           min_val == level.range[1]
           max_val == level.range[2]
       IN  \E i \in 1..Len(level.operations) :
               LET operation == level.operations[i]
                   first_draws == IF operation \in {"*", "/"}
                                  THEN {min_val, max_val} ELSE min_val..max_val
               IN  \E n1 \in first_draws, n2 \in first_draws :
                     \E r1 \in second_draws(operation), r2 \in second_draws(operation) :
                        ret' = [status |-> "return",
                                value |-> generate_puzzle(current_difficulty, operation,
                                                          n1, n2, r1, r2)]
    /\ pc' = "done"
    /\ UNCHANGED <<adaptation_history, args>>
    /\ UNCHANGED tracker
    /\ UNCHANGED main

SpecPuzzle == InitPuzzle /\ [][GeneratePuzzle]_vars

-----------------------------------------------------------------------------
(* PerformanceTracker (src/src/tracker.py)                                  *)

\* lines 13-17: PerformanceTracker(name), constructed at time now
NewTracker(name, now) ==
    /\ username = name
    /\ session_start = now
    /\ tracker_attempts = <<>>
    /\ tracker_difficulty = "None"
    /\ files = <<>>
    /\ clock = now

\* the engine and the generator are not called while a tracker method is studied
TrackerCall(method) ==
    /\ adaptation_history = <<>>
    /\ pc = "call" /\ fn = method
    /\ current_difficulty = "easy"
    /\ performance_metrics = NoMetrics
    /\ recent_attempts = <<>>
    /\ attempts_since_last_adjustment = 0
    /\ confidence_score = R(0)
    /\ ret = NoRet
    /\ NoLoop

\* lines 31-41: the dict appended by record_attempt
attempt_of(question, user_answer, correct_answer, time_taken, difficulty, now) ==
    [question |-> question,
     user_answer |-> user_answer,
     correct_answer |-> correct_answer,
     is_correct |-> (user_answer = correct_answer),
     time_taken |-> time_taken,
     difficulty |-> difficulty,
     timestamp |-> now]

\* record_attempt(question, user_answer, correct_answer, time_taken, difficulty)
\* with arguments drawn from inputs, while the log is shorter than limit
RecordAttempt(inputs, limit) ==
    /\ pc = "call"
    /\ Len(tracker_attempts) < limit
    /\ \E a \in inputs :
          LET attempt == attempt_of(a.question, a.user_answer, a.correct_answer,
                                    a.time_taken, a.difficulty, clock)
          IN  /\ tracker_attempts' = Append(tracker_attempts, attempt)
              /\ tracker_difficulty' = a.difficulty
              /\ ret' = [status |-> "return", value |-> attempt.is_correct]
    /\ UNCHANGED <<adaptation_history, pc, args, username, session_start, files, clock>>
    /\ UNCHANGED main

\* 'x' in question
Contains(question, x) == \E i \in 1..Len(question) : question[i] = x

\* variant: the multiplication sign is looked for first
operation_of_times_first(question) ==
    IF Contains(question, "×") THEN "multiplication"
    ELSE IF Contains(question, "+") THEN "addition"
    ELSE IF Contains(question, "-") THEN "subtraction"
    ELSE IF Contains(question, "÷") THEN "division"
    ELSE "other"

\* lines 120-129
operation_of(question) ==
    IF Contains(question, "+") THEN "addition"
    ELSE IF Contains(question, "-") THEN "subtraction"
    ELSE IF Contains(question, "×") THEN "multiplication"
    ELSE IF Contains(question, "÷") THEN "division"
    ELSE "other"

\* lines 116-139: a dict with one key per operation the log contains
get_operation_breakdown(log) ==
    LET ops == {operation_of(log[i].question) : i \in 1..Len(log)}
        total(op) == Count(log, LAMBDA i : operation_of(log[i].question) = op)
        correct(op) == Count(log, LAMBDA i : operation_of(log[i].question) = op
                                              /\ log[i].is_correct)
    IN  [op \in ops |->
            [total |-> total(op),
             correct |-> correct(op),
             accuracy |-> RMul(Rat(correct(op), total(op)), R(100))]]

\* the questions and answers recorded while the breakdown is studied
BreakdownInputs ==
    {[question |-> q[1], correct_answer |-> q[2], user_answer |-> IF right THEN q[2] ELSE 0,
      time_taken |-> R(3), difficulty |-> "medium"] :
        q \in {<<Question(5, "+", 3), 8>>,
                <<Question(9, "-", 2), 7>>,
                <<Question(8, "×", 5), 40>>,
                <<Question(12, "÷", 4), 3>>,
                <<(<<"Q", "1">>), 1>>,
                <<Question(2, "+", 3) \o <<" ", "×", " ">> \o Str(4), 14>>,
                <<Question(8, "×", 4) \o <<" ", "÷", " ">> \o Str(2), 16>>},
        right \in BOOLEAN}

\* get_operation_breakdown()
GetOperationBreakdown ==
    /\ pc = "call" /\ fn = "get_operation_breakdown"
    /\ ret' = [status |-> "return", value |-> get_operation_breakdown(tracker_attempts)]
    /\ pc' = "done"
    /\ UNCHANGED <<adaptation_history, args, tracker>>
    /\ UNCHANGED main

InitBreakdown == TrackerCall("get_operation_breakdown") /\ NewTracker(<<"a", "n", "n">>, 0)
NextBreakdown == RecordAttempt(BreakdownInputs, MaxBreakdownLog) \/ GetOperationBreakdown
SpecBreakdown == InitBreakdown /\ [][NextBreakdown]_vars

\* lines 141-160; acc1, acc2 and acc + 0.1 are doubles, the accuracies
\* returned are shown as the quotients they round
get_learning_velocity(log) ==
    IF Len(log) < 4
    THEN [trend |-> "insufficient_data"]
    ELSE LET midpoint == Len(log) \div 2
             first_half == SubSeq(log, 1, midpoint)
             second_half == SubSeq(log, midpoint + 1, Len(log))
             correct1 == Count(first_half, LAMBDA i : first_half[i].is_correct)
             correct2 == Count(second_half, LAMBDA i : second_half[i].is_correct)
             acc1 == Double(correct1, Len(first_half))
             acc2 == Double(correct2, Len(second_half))
         IN  [trend |-> IF FGt(acc2, FAdd(acc1, Double(1, 10))) THEN "improving"
                        ELSE IF FGt(acc1, FAdd(acc2, Double(1, 10))) THEN "declining"
                        ELSE "stable",
              start_accuracy |-> Rat(correct1, Len(first_half)),
              end_accuracy |-> Rat(correct2, Len(second_half))]

\* the outcome lists: a run of right answers, a run of wrong ones, and again
Runs(b, n) == [i \in 1..n |-> b]
VelocityOutcomes ==
    {Runs(TRUE, c[1]) \o Runs(FALSE, c[2]) \o Runs(TRUE, c[3]) \o Runs(FALSE, c[4]) :
        c \in {d \in (0..MaxLog) \X (0..MaxLog) \X (0..MaxLog) \X (0..MaxLog) :
                  d[1] + d[2] + d[3] + d[4] <= MaxLog}}

\* the log after record_attempt("Q", answer, 1, 3.0, "easy") for each outcome
LogOf(outcomes) ==
    [i \in 1..Len(outcomes) |->
        attempt_of(<<"Q">>, IF outcomes[i] THEN 1 ELSE 0, 1, R(3), "easy", 0)]

InitVelocity ==
    /\ TrackerCall("get_learning_velocity")
    /\ username = <<"a", "n", "n">>
    /\ session_start = 0
    /\ \E o \in VelocityOutcomes :
          /\ tracker_attempts = LogOf(o)
          /\ tracker_difficulty = IF o = <<>> THEN "None" ELSE "easy"
    /\ files = <<>>
    /\ clock = 0

\* get_learning_velocity()
GetLearningVelocity ==
    /\ pc = "call" /\ fn = "get_learning_velocity"
    /\ ret' = [status |-> "return", value |-> get_learning_velocity(tracker_attempts)]
    /\ pc' = "done"
    /\ UNCHANGED <<adaptation_history, args, tracker>>
    /\ UNCHANGED main

SpecVelocity == InitVelocity /\ [][GetLearningVelocity]_vars

-----------------------------------------------------------------------------
(* Session persistence (tracker.py, lines 79-114 and 208-228).  A saved     *)
(* file holds a JSON document: strings and integers as the text json.dump   *)
(* writes, an object as its members in the order they are written.          *)

\* None
None == <<>>
IsNone(x) == DOMAIN x = {}

\* the body of a JSON string: " and \ are written with a \ before them
RECURSIVE escape(_)
escape(chars) ==
    IF chars = <<>> THEN <<>>
    ELSE (IF Head(chars) \in {"\"", "\\"} THEN <<"\\", Head(chars)>> ELSE <<Head(chars)>>)
             \o escape(Tail(chars))

\* the characters a JSON string body stands for
RECURSIVE unescape(_)
unescape(text) ==
    IF text = <<>> THEN <<>>
    ELSE IF Head(text) = "\\" THEN <<text[2]>> \o unescape(Tail(Tail(text)))
    ELSE <<Head(text)>> \o unescape(Tail(text))

\* int(text) for the digits written by str
RECURSIVE ParseDigits(_)
ParseDigits(text) ==
    IF text = <<>> THEN 0
    ELSE 10 * ParseDigits(SubSeq(text, 1, Len(text) - 1))
           + (CHOOSE d \in 0..9 : DigitChars[d + 1] = text[Len(text)])
ParseInt(text) == IF Head(text) = "-" THEN -ParseDigits(Tail(text)) ELSE ParseDigits(text)

\* what json.dump writes for a str, an int, a float, a tier or category name,
\* None, a list and a dict.  A float is written by repr, which reads back as
\* the same float; the names need no escape.
JString(chars) == [type |-> "string", text |-> <<"\"">> \o escape(chars) \o <<"\"">>]
JInt(n) == [type |-> "number", text |-> Str(n)]
JFloat(x) == [type |-> "number", float |-> x]
JName(name) == [type |-> "string", name |-> name]
JNull == [type |-> "null"]
JArray(items) == [type |-> "array", items |-> items]
JObject(members) == [type |-> "object", members |-> members]

\* what json.load makes of them
string_of(j) == unescape(SubSeq(j.text, 2, Len(j.text) - 1))
int_of(j) == ParseInt(j.text)
float_of(j) == j.float
name_of(j) == j.name

\* the keys of a JSON object and the value json.load keeps for a key (the last)
Keys(j) == {j.members[i][1] : i \in 1..Len(j.members)}
Member(j, key) ==
    LET last == CHOOSE i \in 1..Len(j.members) :
                    /\ j.members[i][1] = key
                    /\ \A k \in (i + 1)..Len(j.members) : j.members[k][1] # key
    IN  j.members[last][2]

\* the categories of get_operation_breakdown; the model keeps a dict as a
\* function, and writes the members of the breakdown in this order (json.load
\* finds a member by its key, wherever it stands)
OperationNames == <<"addition", "subtraction", "multiplication", "division", "other">>

\* variant: the questions answered right are reported as the total
get_session_summary_counting_correct(name, start, log, difficulty, now) ==
    IF log = <<>> THEN None
    ELSE LET total == Len(log)
             correct == Count(log, LAMBDA i : log[i].is_correct)
         IN  [username |-> name,
              total_questions |-> correct,
              correct_answers |-> correct,
              accuracy_percentage |-> RMul(Rat(correct, total), R(100)),
              average_time |-> RDiv(RSum([i \in 1..total |-> log[i].time_taken]), R(total)),
              final_difficulty |-> difficulty,
              difficulty_progression |-> [i \in 1..total |-> log[i].difficulty],
              session_duration |-> (now - start) % 86400,
              operation_breakdown |-> get_operation_breakdown(log),
              learning_velocity |-> get_learning_velocity(log)]

\* lines 79-114, for a tracker (name, start, log, difficulty) at time now
get_session_summary(name, start, log, difficulty, now) ==
    IF log = <<>> THEN None
    ELSE LET total == Len(log)
             correct == Count(log, LAMBDA i : log[i].is_correct)
         IN  [username |-> name,
              total_questions |-> total,
              correct_answers |-> correct,
              accuracy_percentage |-> RMul(Rat(correct, total), R(100)),
              average_time |-> RDiv(RSum([i \in 1..total |-> log[i].time_taken]), R(total)),
              final_difficulty |-> difficulty,
              difficulty_progression |-> [i \in 1..total |-> log[i].difficulty],
              session_duration |-> (now - start) % 86400,
              operation_breakdown |-> get_operation_breakdown(log),
              learning_velocity |-> get_learning_velocity(log)]

\* json.dump of one entry of the operation breakdown
dump_stats(stats) ==
    JObject(<< <<"total", JInt(stats.total)>>,
               <<"correct", JInt(stats.correct)>>,
               <<"accuracy", JFloat(stats.accuracy)>> >>)

\* json.dump of the learning velocity
dump_velocity(velocity) ==
    IF "start_accuracy" \in DOMAIN velocity
    THEN JObject(<< <<"trend", JName(velocity.trend)>>,
                    <<"start_accuracy", JFloat(velocity.start_accuracy)>>,
                    <<"end_accuracy", JFloat(velocity.end_accuracy)>> >>)
    ELSE JObject(<< <<"trend", JName(velocity.trend)>> >>)

\* line 219: json.dump(data, f, default=str, indent=2)
json_dump(data) ==
    IF IsNone(data) THEN JNull
    ELSE JObject(<<
        <<"username", JString(data.username)>>,
        <<"total_questions", JInt(data.total_questions)>>,
        <<"correct_answers", JInt(data.correct_answers)>>,
        <<"accuracy_percentage", JFloat(data.accuracy_percentage)>>,
        <<"average_time", JFloat(data.average_time)>>,
        <<"final_difficulty", JName(data.final_difficulty)>>,
        <<"difficulty_progression",
          JArray([i \in 1..Len(data.difficulty_progression) |->
                     JName(data.difficulty_progression[i])])>>,
        <<"session_duration", JInt(data.session_duration)>>,
        <<"operation_breakdown",
          LET breakdown == data.operation_breakdown
              ops == SelectSeq(OperationNames, LAMBDA op : op \in DOMAIN breakdown)
          IN  JObject([i \in 1..Len(ops) |-> <<ops[i], dump_stats(breakdown[ops[i]])>>])>>,
        <<"learning_velocity", dump_velocity(data.learning_velocity)>> >>)

\* json.load of one entry of the operation breakdown
load_stats(j) ==
    [total |-> int_of(Member(j, "total")),
     correct |-> int_of(Member(j, "correct")),
     accuracy |-> float_of(Member(j, "accuracy"))]

\* json.load of the learning velocity
load_velocity(j) ==
    IF "start_accuracy" \in Keys(j)
    THEN [trend |-> name_of(Member(j, "trend")),
          start_accuracy |-> float_of(Member(j, "start_accuracy")),
          end_accuracy |-> float_of(Member(j, "end_accuracy"))]
    ELSE [trend |-> name_of(Member(j, "trend"))]

\* line 228: json.load(f)
json_load(j) ==
    IF j.type = "null" THEN None
    ELSE [username |-> string_of(Member(j, "username")),
          total_questions |-> int_of(Member(j, "total_questions")),
          correct_answers |-> int_of(Member(j, "correct_answers")),
          accuracy_percentage |-> float_of(Member(j, "accuracy_percentage")),
          average_time |-> float_of(Member(j, "average_time")),
          final_difficulty |-> name_of(Member(j, "final_difficulty")),
          difficulty_progression |->
              LET items == Member(j, "difficulty_progression").items
              IN  [i \in 1..Len(items) |-> name_of(items[i])],
          session_duration |-> int_of(Member(j, "session_duration")),
          operation_breakdown |->
              LET breakdown == Member(j, "operation_breakdown")
              IN  [op \in Keys(breakdown) |-> load_stats(Member(breakdown, op))],
          learning_velocity |-> load_velocity(Member(j, "learning_velocity"))]

\* lines 210-216: os.path.join("data", "sessions", f"{username}_{timestamp}.json")
session_dir == <<"d", "a", "t", "a", "/", "s", "e", "s", "s", "i", "o", "n", "s">>
filepath_of(name, timestamp) ==
    session_dir \o <<"/">> \o name \o <<"_">> \o Str(timestamp)
        \o <<".", "j", "s", "o", "n">>

\* open(filepath, "w") finds the directory of the file: makedirs made only
\* data/sessions
CanCreate(name) == ~Contains(name, "/")

\* the names typed at the prompt
Usernames == {<<"a", "n", "n">>, <<"a">>, <<"a", "_", "1">>, <<"\"", "a", "\\">>,
              <<"a", "/", "b">>}

\* the times at which a session starts, in seconds
StartTimes == {0, 9}

\* the attempts recorded before the session is saved
SessionInputs ==
    {[question |-> Question(5, "+", 3), correct_answer |-> 8, user_answer |-> 8,
      time_taken |-> R(3), difficulty |-> "easy"],
     [question |-> Question(8, "×", 5), correct_answer |-> 40, user_answer |-> 45,
      time_taken |-> R(7), difficulty |-> "medium"],
     [question |-> Question(12, "÷", 4), correct_answer |-> 3, user_answer |-> 3,
      time_taken |-> R(4), difficulty |-> "hard"]}

InitPersistence ==
    /\ TrackerCall("save_session")
    /\ \E name \in Usernames, now \in StartTimes : NewTracker(name, now)

\* a second passes
Tick ==
    /\ clock - session_start < MaxTicks
    /\ clock' = clock + 1
    /\ UNCHANGED <<engine, username, session_start, tracker_attempts, tracker_difficulty, files>>
    /\ UNCHANGED main

\* the modification time of the next file written: files written one after
\* the other have increasing modification times
NextMtime(fs) ==
    IF DOMAIN fs = {} THEN 1
    ELSE 1 + (CHOOSE m \in {fs[p].mtime : p \in DOMAIN fs} :
                 \A p \in DOMAIN fs : fs[p].mtime <= m)

\* the file written at line 218-219; saved_by is the user whose session the
\* file holds, which no code reads
FileOf(data, fs, name) ==
    [document |-> json_dump(data), mtime |-> NextMtime(fs), saved_by |-> name]

\* save_session(): writes the file and returns its path, or fails in open
SaveSession ==
    /\ pc = "call" /\ fn = "save_session"
    /\ LET data == get_session_summary(username, session_start, tracker_attempts,
                                       tracker_difficulty, clock)
           filepath == filepath_of(username, clock)
       IN  IF CanCreate(username)
           THEN /\ files' = (filepath :> FileOf(data, files, username)) @@ files
                /\ ret' = [status |-> "return", value |-> filepath]
                /\ pc' = "saved"
           ELSE /\ files' = files
                /\ ret' = [status |-> "FileNotFoundError"]
                /\ pc' = "done"
    /\ UNCHANGED <<adaptation_history, args, username, session_start,
                   tracker_attempts, tracker_difficulty, clock>>
    /\ UNCHANGED main

\* load_session(filepath) on the path save_session returned
LoadSession ==
    /\ pc = "saved"
    /\ ret' = [status |-> "return", value |-> json_load(files[ret.value].document)]
    /\ pc' = "done"
    /\ fn' = "load_session"
    /\ UNCHANGED <<adaptation_history, current_difficulty, performance_metrics,
                   recent_attempts, attempts_since_last_adjustment, confidence_score>>
    /\ UNCHANGED tracker
    /\ UNCHANGED main

NextPersistence ==
    RecordAttempt(SessionInputs, MaxSessionLog) \/ Tick \/ SaveSession \/ LoadSession
SpecPersistence == InitPersistence /\ [][NextPersistence]_vars

-----------------------------------------------------------------------------
(* The sessions of several users (main.py, lines 78-85 and 320-322;         *)
(* tracker.py, lines 195-206)                                               *)

StartsWith(s, prefix) == Len(s) >= Len(prefix) /\ SubSeq(s, 1, Len(prefix)) = prefix
EndsWith(s, suffix) ==
    Len(s) >= Len(suffix) /\ SubSeq(s, Len(s) - Len(suffix) + 1, Len(s)) = suffix

\* os.listdir(session_dir): the names of the files of the directory
listdir(fs) ==
    {SubSeq(p, Len(session_dir) + 2, Len(p)) : p \in {q \in DOMAIN fs : StartsWith(q, session_dir \o <<"/">>)}}

\* sorted(paths, key=os.path.getmtime, reverse=True)
RECURSIVE sorted_by_mtime(_, _)
sorted_by_mtime(paths, fs) ==
    IF paths = {} THEN <<>>
    ELSE LET newest == CHOOSE p \in paths : \A q \in paths : fs[q].mtime <= fs[p].mtime
         IN  <<newest>> \o sorted_by_mtime(paths \ {newest}, fs)

\* lines 195-206
list_user_sessions(name, fs) ==
    LET matching == {f \in listdir(fs) : /\ StartsWith(f, name \o <<"_">>)
                                         /\ EndsWith(f, <<".", "j", "s", "o", "n">>)}
    IN  sorted_by_mtime({session_dir \o <<"/">> \o f : f \in matching}, fs)

\* the names typed at the prompt while the directory is studied
ListUsernames == {<<"a", "n", "n">>, <<"a">>, <<"a", "_", "1">>}

\* the attempts of a session that is listed later
ListInputs ==
    {[question |-> Question(5, "+", 3), correct_answer |-> 8, user_answer |-> 8,
      time_taken |-> R(3), difficulty |-> "easy"]}

\* the program is started: no tracker yet, an empty directory
InitSessions ==
    /\ adaptation_history = <<>>
    /\ pc = "start" /\ fn = "list_user_sessions"
    /\ current_difficulty = "easy"
    /\ performance_metrics = NoMetrics
    /\ recent_attempts = <<>>
    /\ attempts_since_last_adjustment = 0
    /\ confidence_score = R(0)
    /\ ret = NoRet
    /\ NoTracker
    /\ NoLoop

\* main, lines 78-83: the name is read and list_user_sessions(username) called
CheckForPreviousSessions ==
    /\ pc = "start"
    /\ \E name \in ListUsernames :
          /\ username' = name
          /\ ret' = [status |-> "return", value |-> list_user_sessions(name, files)]
    /\ pc' = "listed"
    /\ UNCHANGED <<adaptation_history, args, session_start, tracker_attempts,
                   tracker_difficulty, files, clock>>
    /\ UNCHANGED main

\* main, line 85: tracker = PerformanceTracker(username); the session ends
\* with save_session
StartSession ==
    /\ pc = "listed"
    /\ NextMtime(files) <= MaxSaves
    /\ session_start' = clock
    /\ tracker_attempts' = <<>>
    /\ tracker_difficulty' = "None"
    /\ pc' = "call"
    /\ fn' = "save_session"
    /\ ret' = NoRet
    /\ UNCHANGED <<adaptation_history, current_difficulty, performance_metrics,
                   recent_attempts, attempts_since_last_adjustment, confidence_score,
                   username, files, clock>>
    /\ UNCHANGED main

\* the program is started again
StartAgain ==
    /\ pc = "saved"
    /\ pc' = "start"
    /\ fn' = "list_user_sessions"
    /\ ret' = NoRet
    /\ UNCHANGED <<adaptation_history, current_difficulty, performance_metrics,
                   recent_attempts, attempts_since_last_adjustment, confidence_score>>
    /\ UNCHANGED tracker
    /\ UNCHANGED main

NextSessions ==
    CheckForPreviousSessions \/ StartSession \/ RecordAttempt(ListInputs, 1) \/ Tick
        \/ SaveSession \/ StartAgain
SpecSessions == InitSessions /\ [][NextSessions]_vars

-----------------------------------------------------------------------------
(* PerformanceTracker.get_recent_performance (tracker.py, lines 48-77)      *)

\* variant: the window is taken from the start of the log
get_recent_performance_from_start(log, n) ==
    IF log = <<>>
    THEN [accuracy |-> R(0), avg_time |-> R(0), total_attempts |-> 0,
          attempts_list |-> <<>>, times |-> <<>>]
    ELSE LET recent == IF Len(log) >= n THEN SubSeq(log, 1, n) ELSE log
             correct_count == Count(recent, LAMBDA i : recent[i].is_correct)
             total_count == Len(recent)
             times == [i \in 1..total_count |-> recent[i].time_taken]
         IN  [accuracy |-> IF total_count > 0 THEN Rat(correct_count, total_count) ELSE R(0),
              avg_time |-> RDiv(RSum(times), R(total_count)),
              total_attempts |-> total_count,
              correct_count |-> correct_count,
              attempts_list |-> [i \in 1..total_count |-> recent[i].is_correct],
              times |-> times]

\* lines 55-77; attempts[-n:] is the whole list when n = 0
get_recent_performance(log, n) ==
    IF log = <<>>
    THEN [accuracy |-> R(0), avg_time |-> R(0), total_attempts |-> 0,
          attempts_list |-> <<>>, times |-> <<>>]
    ELSE LET recent == IF Len(log) >= n /\ n > 0
                       THEN SubSeq(log, Len(log) - n + 1, Len(log))
                       ELSE log
             correct_count == Count(recent, LAMBDA i : recent[i].is_correct)
             total_count == Len(recent)
             times == [i \in 1..total_count |-> recent[i].time_taken]
         IN  [accuracy |-> IF total_count > 0 THEN Rat(correct_count, total_count) ELSE R(0),
              avg_time |-> RDiv(RSum(times), R(total_count)),
              total_attempts |-> total_count,
              correct_count |-> correct_count,
              attempts_list |-> [i \in 1..total_count |-> recent[i].is_correct],
              times |-> times]

\* the attempts recorded while the window is studied
RecentInputs ==
    {[question |-> Question(5, "+", 3), correct_answer |-> 8,
      user_answer |-> IF right THEN 8 ELSE 9, time_taken |-> t, difficulty |-> "easy"] :
        right \in BOOLEAN, t \in {R(2), <<7, 2>>, R(12)}}

InitRecent == TrackerCall("get_recent_performance") /\ NewTracker(<<"a", "n", "n">>, 0)

\* get_recent_performance(n)
GetRecentPerformance ==
    /\ pc = "call" /\ fn = "get_recent_performance"
    /\ \E n \in 1..MaxWindowLen :
          ret' = [status |-> "return", n |-> n,
                  value |-> get_recent_performance(tracker_attempts, n)]
    /\ UNCHANGED <<adaptation_history, pc, args, tracker>>
    /\ UNCHANGED main

NextRecent == RecordAttempt(RecentInputs, MaxRecentLog) \/ GetRecentPerformance
SpecRecent == InitRecent /\ [][NextRecent]_vars

\* the attempts recorded before a decision is taken on their window: right or
\* wrong, fast or slow (a window of both has a middling mean latency)
TrackedInputs ==
    {[question |-> Question(5, "+", 3), correct_answer |-> 8,
      user_answer |-> IF right THEN 8 ELSE 9, time_taken |-> t, difficulty |-> "easy"] :
        right \in BOOLEAN, t \in {R(2), R(40)}}

\* a fresh engine and a fresh tracker; the tier and the attempts count of the
\* decision are drawn here
InitTracked ==
    /\ adaptation_history = <<>>
    /\ pc = "call" /\ fn = "decide_next_difficulty"
    /\ current_difficulty \in Tiers
    /\ performance_metrics = NoMetrics
    /\ recent_attempts = <<>>
    /\ attempts_since_last_adjustment \in 2..MaxAttempts
    /\ confidence_score = R(0)
    /\ ret = NoRet
    /\ NewTracker(<<"a", "n", "n">>, 0)
    /\ NoLoop

\* decide_next_difficulty on the window that get_recent_performance derives
\* from the log, as main calls them (main.py, lines 182-184 and 211-216)
DecideOnRecentPerformance ==
    /\ pc = "call" /\ fn = "decide_next_difficulty"
    /\ tracker_attempts # <<>>
    /\ \E recent_performance \in {get_recent_performance(tracker_attempts, MaxWindowLen)} :
          LET r == decide_next_difficulty(current_difficulty, recent_performance,
                                          recent_performance.attempts_list,
                                          attempts_since_last_adjustment)
          IN  /\ performance_metrics' = recent_performance
              /\ recent_attempts' = recent_performance.attempts_list
              /\ ret' = r
              /\ adaptation_history' = record_decision(adaptation_history, r)
    /\ pc' = "done"
    /\ UNCHANGED <<fn, current_difficulty, attempts_since_last_adjustment, confidence_score>>
    /\ UNCHANGED tracker
    /\ UNCHANGED main

NextTracked == RecordAttempt(TrackedInputs, MaxWindowLen) \/ DecideOnRecentPerformance
SpecTracked == InitTracked /\ [][NextTracked]_vars

-----------------------------------------------------------------------------
(* The session loop of main (main.py, lines 110-262).  One action is one    *)
(* pass of the loop, from the question asked to the next prompt or the end  *)
(* of the loop.  What the user types is the sequence of its characters.     *)

\* str.strip() for the blank character
RECURSIVE lstrip(_)
lstrip(text) == IF text # <<>> /\ Head(text) = " " THEN lstrip(Tail(text)) ELSE text
RECURSIVE rstrip(_)
rstrip(text) ==
    IF text # <<>> /\ text[Len(text)] = " "
    THEN rstrip(SubSeq(text, 1, Len(text) - 1))
    ELSE text
strip(text) == rstrip(lstrip(text))

\* str.lower() for the letters of the quit word
lower_char(c) ==
    CASE c = "Q" -> "q" [] c = "U" -> "u" [] c = "I" -> "i" [] c = "T" -> "t" [] OTHER -> c
lower(text) == [i \in 1..Len(text) |-> lower_char(text[i])]

\* int(text) succeeds on an optional sign followed by digits (texts made of
\* letters, digits, signs, dots and blanks); otherwise it raises ValueError
is_int_text(text) ==
    LET body == IF text # <<>> /\ Head(text) \in {"+", "-"} THEN Tail(text) ELSE text
    IN  /\ body # <<>>
        /\ \A i \in 1..Len(body) : \E d \in 1..10 : DigitChars[d] = body[i]
int_of_text(text) == IF Head(text) = "+" THEN ParseDigits(Tail(text)) ELSE ParseInt(text)

\* what the user may type when the answer is correct_answer, and the seconds
\* taken to type it (end_time - start_time)
AnswerInputs(correct_answer) ==
    {[text |-> t, time_taken |-> R(1)] :
        t \in {<<"q", "u", "i", "t">>, <<"Q", "u", "i", "t", " ">>,
               <<"a", "b", "c">>, <<>>, <<"3", ".", "5">>, <<"q", "u", "i", "t", "!">>}}
    \cup {[text |-> Str(correct_answer), time_taken |-> R(2)],
          [text |-> <<" ", "+">> \o Str(correct_answer) \o <<" ">>, time_taken |-> R(12)],
          [text |-> Str(-correct_answer), time_taken |-> R(12)]}

\* the calls one pass of the loop makes, in order, up to the answer
CallsBeforeAnswer == <<"get_recent_performance", "generate_puzzle">>

\* variant: the decision is given the number of questions asked in the session
adapt_with_question_count(difficulty, log, question_count, attempts_since_adjustment) ==
    LET recent_performance == get_recent_performance(log, IF question_count < 5
                                                          THEN question_count ELSE 5)
        confidence == calculate_confidence_score(recent_performance,
                                                 recent_performance.attempts_list)
        optimal_window == get_dynamic_window(difficulty, confidence)
        should_check_adjustment ==
            \/ attempts_since_adjustment >= optimal_window
            \/ (attempts_since_adjustment >= 2 /\ RGt(confidence, <<4, 5>>))
    IN  [recent_performance |-> recent_performance,
         confidence |-> confidence,
         optimal_window |-> optimal_window,
         should_check_adjustment |-> should_check_adjustment,
         decision |-> IF should_check_adjustment
                      THEN decide_next_difficulty(difficulty, recent_performance,
                                                  recent_performance.attempts_list,
                                                  question_count)
                      ELSE NoRet]

\* variant: the decision is given the count before this question
adapt_with_count_before(difficulty, log, question_count, attempts_since_adjustment) ==
    LET recent_performance == get_recent_performance(log, IF question_count < 5
                                                          THEN question_count ELSE 5)
        confidence == calculate_confidence_score(recent_performance,
                                                 recent_performance.attempts_list)
        optimal_window == get_dynamic_window(difficulty, confidence)
        should_check_adjustment ==
            \/ attempts_since_adjustment >= optimal_window
            \/ (attempts_since_adjustment >= 2 /\ RGt(confidence, <<4, 5>>))
    IN  [recent_performance |-> recent_performance,
         confidence |-> confidence,
         optimal_window |-> optimal_window,
         should_check_adjustment |-> should_check_adjustment,
         decision |-> IF should_check_adjustment
                      THEN decide_next_difficulty(difficulty, recent_performance,
                                                  recent_performance.attempts_list,
                                                  attempts_since_adjustment - 1)
                      ELSE NoRet]

\* lines 181-240 for a pass with question_count >= 2, after the attempt was
\* recorded: the window, the confidence, the test of line 197 and the decision
adapt(difficulty, log, question_count, attempts_since_adjustment) ==
    LET recent_performance == get_recent_performance(log, IF question_count < 5
                                                          THEN question_count ELSE 5)
        confidence == calculate_confidence_score(recent_performance,
                                                 recent_performance.attempts_list)
        optimal_window == get_dynamic_window(difficulty, confidence)
        should_check_adjustment ==
            \/ attempts_since_adjustment >= optimal_window
            \/ (attempts_since_adjustment >= 2 /\ RGt(confidence, <<4, 5>>))
    IN  [recent_performance |-> recent_performance,
         confidence |-> confidence,
         optimal_window |-> optimal_window,
         should_check_adjustment |-> should_check_adjustment,
         decision |-> IF should_check_adjustment
                      THEN decide_next_difficulty(difficulty, recent_performance,
                                                  recent_performance.attempts_list,
                                                  attempts_since_adjustment)
                      ELSE NoRet]

InitLoop ==
    /\ adaptation_history = <<>>
    /\ pc = "loop" /\ fn = "main"
    /\ current_difficulty \in Tiers
    /\ performance_metrics = NoMetrics
    /\ recent_attempts = <<>>
    /\ attempts_since_last_adjustment = 0
    /\ confidence_score = R(0)
    /\ ret = NoRet
    /\ NewTracker(<<"a", "n", "n">>, 0)
    /\ main = NoCounts

\* the pass ends at line 140 ('quit') or at line 262 (the user does not continue)
Break(counts, calls) ==
    /\ main' = counts
    /\ pc' = "ended"
    /\ ret' = [status |-> "break", calls |-> calls]
    /\ UNCHANGED <<adaptation_history, fn, current_difficulty, performance_metrics,
                   recent_attempts, attempts_since_last_adjustment, confidence_score,
                   tracker>>

\* variant: the answer that is not a number is recorded as a wrong answer
Reprompt_recorded_as_wrong(counts, calls) ==
    /\ main' = counts
    /\ ret' = [status |-> "continue", calls |-> calls,
               printed |-> "Please enter a number!"]
    /\ tracker_attempts' = Append(tracker_attempts,
                                  attempt_of(<<"?">>, 0, 1, R(1), current_difficulty, clock))
    /\ UNCHANGED <<adaptation_history, pc, fn, current_difficulty, performance_metrics,
                   recent_attempts, attempts_since_last_adjustment, confidence_score,
                   username, session_start, tracker_difficulty, files, clock>>

\* the pass ends at line 150: the answer is not a number
Reprompt(counts, calls) ==
    /\ main' = counts
    /\ ret' = [status |-> "continue", calls |-> calls,
               printed |-> "Please enter a number!"]
    /\ UNCHANGED <<adaptation_history, pc, fn, current_difficulty, performance_metrics,
                   recent_attempts, attempts_since_last_adjustment, confidence_score,
                   tracker>>

\* lines 152-262: the attempt is recorded and the difficulty adapted
Answered(counts, question, user_answer, correct_answer, time_taken) ==
    LET attempt == attempt_of(question, user_answer, correct_answer, time_taken,
                              current_difficulty, clock)
        log == Append(tracker_attempts, attempt)
        adapting == counts.question_count >= 2
        milestone == counts.question_count >= 5 /\ counts.question_count % 5 = 0
    IN  \E a \in {adapt(current_difficulty, log, counts.question_count,
                        counts.attempts_since_adjustment)} :
        \E continue_choice \in IF milestone THEN BOOLEAN ELSE {TRUE} :
        LET deciding == adapting /\ a.should_check_adjustment
            failed == deciding /\ a.decision.status # "return"
            next_difficulty == IF deciding /\ ~failed THEN a.decision.next_difficulty
                               ELSE current_difficulty
            changed == next_difficulty # current_difficulty
            calls == CallsBeforeAnswer \o <<"record_attempt">>
                     \o (IF counts.question_count >= 3
                         THEN <<"get_recent_performance">> ELSE <<>>)
                     \o (IF adapting
                         THEN <<"get_recent_performance", "calculate_confidence_score",
                                "get_dynamic_window">>
                         ELSE <<>>)
                     \o (IF deciding THEN <<"detect_streak", "decide_next_difficulty">>
                         ELSE <<>>)
                     \o (IF changed THEN <<"get_detailed_recommendation">> ELSE <<>>)
                     \o (IF deciding /\ ~failed THEN <<"get_encouragement">> ELSE <<>>)
                     \o (IF milestone /\ ~failed THEN <<"get_session_summary">> ELSE <<>>)
        IN  /\ tracker_attempts' = log
            /\ tracker_difficulty' = current_difficulty
            /\ IF adapting
               THEN /\ performance_metrics' = a.recent_performance
                    /\ recent_attempts' = a.recent_performance.attempts_list
                    /\ confidence_score' = a.confidence
               ELSE UNCHANGED <<performance_metrics, recent_attempts, confidence_score>>
            /\ attempts_since_last_adjustment' =
                  IF deciding THEN counts.attempts_since_adjustment
                  ELSE attempts_since_last_adjustment
            /\ adaptation_history' =
                  IF deciding THEN record_decision(adaptation_history, a.decision)
                  ELSE adaptation_history
            /\ current_difficulty' = next_difficulty
            /\ main' = IF changed
                       THEN [counts EXCEPT !.attempts_since_adjustment = 0,
                                           !.last_adjustment_question = counts.question_count]
                       ELSE counts
            /\ pc' = IF failed THEN "crashed"
                     ELSE IF milestone /\ ~continue_choice THEN "ended"
                     ELSE "loop"
            /\ ret' = [status |-> IF failed THEN a.decision.status
                                  ELSE IF milestone /\ ~continue_choice THEN "break"
                                  ELSE "return",
                       calls |-> calls,
                       is_correct |-> attempt.is_correct]
            /\ UNCHANGED <<fn, username, session_start, files, clock>>

\* line 130, for the first operation of the level and the smallest operands
\* (the question asked has no part in the adaptation)
Puzzle ==
    LET level == level_of(current_difficulty)
    IN  generate_puzzle(current_difficulty, level.operations[1],
                        level.range[1], level.range[1], 2, 2)

\* one pass of the loop of lines 115-262, for the text typed at line 136 and
\* the seconds taken to type it
Pass(text, time_taken) ==
    LET counts == [main EXCEPT !.question_count = @ + 1,
                               !.attempts_since_adjustment = @ + 1]
        user_answer == strip(text)
    IN  IF lower(user_answer) = <<"q", "u", "i", "t">>
        THEN Break(counts, CallsBeforeAnswer)
        ELSE IF ~is_int_text(user_answer)
        THEN Reprompt(counts, CallsBeforeAnswer)
        ELSE Answered(counts, Puzzle[1], int_of_text(user_answer), Puzzle[2], time_taken)

\* a pass of the loop, for every answer of AnswerInputs
AskQuestion ==
    /\ pc = "loop"
    /\ main.question_count < MaxQuestions
    /\ \E typed \in AnswerInputs(Puzzle[2]) : Pass(typed.text, typed.time_taken)

SpecLoop == InitLoop /\ [][AskQuestion]_vars

\* the latencies below 5 seconds of a session in which every answer takes the
\* same time
SteadyLatencies == {<<k, 4>> : k \in 1..19}

InitSteady ==
    /\ InitLoop
    /\ current_difficulty = "easy"

\* a pass of the loop in which the right answer is typed, after the same time
\* as every answer before
AnswerSteadily ==
    /\ pc = "loop"
    /\ main.question_count < MaxSteadyQuestions
    /\ \E t \in IF tracker_attempts = <<>> THEN SteadyLatencies
                ELSE {tracker_attempts[1].time_taken} :
          Pass(Str(Puzzle[2]), t)

SpecSteady == InitSteady /\ [][AnswerSteadily]_vars

Init == InitDecide \/ InitConfidence \/ InitStreak \/ InitWindow \/ InitHistory
           \/ InitScenario \/ InitPuzzle \/ InitBreakdown \/ InitVelocity
           \/ InitPersistence \/ InitSessions \/ InitRecent \/ InitLoop
           \/ InitSteady \/ InitTracked
Next == DecideNextDifficulty \/ CalculateConfidenceScore \/ DetectStreak
           \/ GetEncouragement \/ GetDynamicWindow \/ RepeatCall \/ DiscardedCall
           \/ GeneratePuzzle \/ NextBreakdown \/ GetLearningVelocity
           \/ NextPersistence \/ NextSessions \/ NextRecent \/ AskQuestion
           \/ AnswerSteadily \/ NextTracked
Spec == Init /\ [][Next]_vars

-----------------------------------------------------------------------------
(* Properties of decide_next_difficulty                                     *)

\* the position of a tier on the scale easy < medium < hard
TierPos(t) == CASE t = "easy" -> 0 [] t = "medium" -> 1 [] t = "hard" -> 2 [] OTHER -> -1
TierAt(i) == CASE i = 0 -> "easy" [] i = 1 -> "medium" [] i = 2 -> "hard" [] OTHER -> "?"

Decided == pc = "done" /\ fn = "decide_next_difficulty"
\* the call returned the decision of a window with at least 2 samples
Scored == Decided /\ ret.status = "return" /\ performance_metrics.total_attempts >= 2

\* C1: a call with a tier of {easy, medium, hard} returns a tier of that set
\* whose position differs from the current tier's by at most 1.
C1_TierMovesAtMostOneStep ==
    (Decided /\ ret.status = "return" /\ current_difficulty \in Tiers) =>
        /\ ret.next_difficulty \in Tiers
        /\ Abs(TierPos(ret.next_difficulty) - TierPos(current_difficulty)) <= 1

\* C1 witness: an increase decided at hard leaves the tier at hard
C1_Witness ==
    /\ Scored /\ current_difficulty = "hard"
    /\ ret.decision_details.type = "increase" /\ ret.next_difficulty = "hard"

\* C2: with fewer than 2 samples the call returns a decision whose action is
\* maintain, whose next tier is the current tier, whose confidence is 0 and
\* whose rationale is insufficient_data.
C2_InsufficientDataMaintains ==
    (Decided /\ performance_metrics.total_attempts < 2) =>
        /\ ret.status = "return"
        /\ ret.next_difficulty = current_difficulty
        /\ "type" \in DOMAIN ret.decision_details
        /\ ret.decision_details.type = "maintain"
        /\ ret.decision_details.confidence = R(0)
        /\ ret.decision_details.reason = "insufficient_data"

\* C3: with at least 2 samples, T = 2.0*(1 - 0.2*confidence) and W the dynamic
\* window for (current tier, confidence): increase with next = min(current+1, hard)
\* exactly when score >= T and attempts >= W; otherwise decrease with
\* next = max(current-1, easy) exactly when score <= -T and attempts >= W;
\* otherwise maintain with next = current.  Below W the action is maintain.
C3_Threshold(confidence) == RSub(R(2), RMul(<<2, 5>>, confidence))

C3_ActionFollowsThresholds ==
    Scored =>
        LET d == ret.decision_details
            T == C3_Threshold(d.confidence)
            W == get_dynamic_window(current_difficulty, d.confidence)
            cur == TierPos(current_difficulty)
            gate == attempts_since_last_adjustment >= W
            inc == gate /\ RGe(d.adjustment_score, T)
            dec == ~inc /\ gate /\ RLe(d.adjustment_score, RNeg(T))
        IN  /\ d.optimal_window = W
            /\ d.confidence = calculate_confidence_score(performance_metrics, recent_attempts)
            /\ inc => d.type = "increase"
                      /\ ret.next_difficulty = TierAt(IF cur + 1 < 2 THEN cur + 1 ELSE 2)
            /\ dec => d.type = "decrease"
                      /\ ret.next_difficulty = TierAt(IF cur - 1 > 0 THEN cur - 1 ELSE 0)
            /\ (~inc /\ ~dec) => d.type = "maintain"
                                 /\ ret.next_difficulty = current_difficulty
            /\ ~gate => d.type = "maintain"

\* C3 witness: a score beyond the threshold held back by the window gate
C3_Witness ==
    /\ Scored
    /\ RGe(ret.decision_details.adjustment_score, C3_Threshold(ret.decision_details.confidence))
    /\ attempts_since_last_adjustment < ret.decision_details.optimal_window
    /\ ret.decision_details.type = "maintain"

\* the contributions as the specification words them
C5_AccuracyPart(accuracy, confidence) ==
    IF RGe(accuracy, <<9, 10>>) THEN RMul(R(3), confidence)
    ELSE IF RGe(accuracy, <<8, 10>>) THEN RMul(R(2), confidence)
    ELSE IF RLe(accuracy, <<5, 10>>) THEN RMul(R(-2), confidence)
    ELSE R(0)

C4_StreakPart(streak) ==
    LET third == Rat(streak.length, 3)
        capped == IF RLt(third, R(2)) THEN third ELSE R(2)
    IN  IF ~streak.is_significant THEN R(0)
        ELSE IF streak.type = "hot" THEN capped
        ELSE IF streak.type = "cold" THEN RNeg(capped)
        ELSE R(0)

C4_SpeedPart(accuracy, latency) ==
    IF RGe(accuracy, <<6, 10>>) /\ RLt(latency, R(5)) THEN R(1)
    ELSE IF RGe(accuracy, <<6, 10>>) /\ RGt(latency, R(15)) THEN <<-1, 2>>
    ELSE R(0)

C4_Multiplier(confidence) ==
    IF RLt(confidence, <<4, 10>>) THEN <<1, 2>>
    ELSE IF RGt(confidence, <<8, 10>>) THEN <<12, 10>>
    ELSE R(1)

\* C4: with at least 2 samples the recorded score is
\* (accuracy part + streak part + speed part) * confidence multiplier.
C4_ScoreIsWeightedSum ==
    Scored =>
        LET d == ret.decision_details
            sum == RAdd(RAdd(C5_AccuracyPart(performance_metrics.accuracy, d.confidence),
                             C4_StreakPart(d.streak)),
                        C4_SpeedPart(performance_metrics.accuracy, performance_metrics.avg_time))
        IN  d.adjustment_score = RMul(sum, C4_Multiplier(d.confidence))

\* C4 witness: a capped streak, a speed bonus and the 1.2 multiplier in one score
C4_Witness ==
    /\ Scored
    /\ ret.decision_details.streak.length > 6
    /\ RLt(performance_metrics.avg_time, R(5))
    /\ RGt(ret.decision_details.confidence, <<4, 5>>)
    /\ RGt(ret.decision_details.adjustment_score, R(2))

\* C4 witness of the other branches: a cold streak and the 0.5 multiplier
C4_WitnessCold ==
    /\ Scored
    /\ ret.decision_details.streak.type = "cold" /\ ret.decision_details.streak.is_significant
    /\ RLt(ret.decision_details.confidence, <<2, 5>>)

\* C5: at most one accuracy bucket fires, in the order excellent, high, low,
\* steady; an accuracy strictly between 0.5 and 0.6 adds nothing to the score
\* and no accuracy entry to the rationale.
AccuracyLabels == {"Excellent accuracy", "High accuracy", "Low accuracy", "Steady accuracy"}
IsAccuracyEntry(f) == f[1] \in AccuracyLabels

C5_Bucket(accuracy) ==
    IF RGe(accuracy, <<9, 10>>) THEN <<"Excellent accuracy">>
    ELSE IF RGe(accuracy, <<8, 10>>) THEN <<"High accuracy">>
    ELSE IF RLe(accuracy, <<5, 10>>) THEN <<"Low accuracy">>
    ELSE IF RGe(accuracy, <<6, 10>>) THEN <<"Steady accuracy">>
    ELSE <<>>

C5_OneAccuracyBucket ==
    Scored =>
        LET d == ret.decision_details
            accuracy == performance_metrics.accuracy
            entries == SelectSeq(d.factors, IsAccuracyEntry)
            \* what the accuracy rule added: the score before the multiplier,
            \* less the streak and speed parts
            added == RSub(RSub(RDiv(d.adjustment_score, C4_Multiplier(d.confidence)),
                               C4_StreakPart(d.streak)),
                          C4_SpeedPart(accuracy, performance_metrics.avg_time))
        IN  /\ Len(entries) <= 1
            /\ [i \in 1..Len(entries) |-> entries[i][1]] = C5_Bucket(accuracy)
            /\ added = C5_AccuracyPart(accuracy, d.confidence)
            /\ (RGt(accuracy, <<1, 2>>) /\ RLt(accuracy, <<3, 5>>)) =>
                   (entries = <<>> /\ added = R(0))

\* C5 witness: the gap between the low and the steady bucket
C5_Witness ==
    /\ Scored
    /\ performance_metrics.accuracy = <<11, 20>>
    /\ SelectSeq(ret.decision_details.factors, IsAccuracyEntry) = <<>>

\* C5 witness: the boundary 0.5 falls in the low bucket
C5_WitnessLow ==
    /\ Scored
    /\ performance_metrics.accuracy = <<1, 2>>
    /\ ret.decision_details.factors[1][1] = "Low accuracy"

-----------------------------------------------------------------------------
(* Properties of calculate_confidence_score                                *)

ConfidenceDone == pc = "done" /\ fn = "calculate_confidence_score"

\* C6: the confidence score lies in [0,1] for every window and outcome list,
\* and is exactly 0.5 when the outcome list is empty.
C6_ConfidenceInUnitInterval ==
    ConfidenceDone =>
        /\ RGe(ret.value, R(0)) /\ RLe(ret.value, R(1))
        /\ recent_attempts = <<>> => ret.value = <<1, 2>>

\* the weighted sum before the clamp, as the specification words it
C7_Mean(xs) == RDiv(RSum(xs), R(Len(xs)))
C7_Variance(xs) ==
    RSub(C7_Mean([i \in 1..Len(xs) |-> RMul(xs[i], xs[i])]), RMul(C7_Mean(xs), C7_Mean(xs)))
C7_LatencyConsistency(xs) ==
    IF Len(xs) >= 2
    THEN LET c == RSub(R(1), RDiv(C7_Variance(xs), R(100)))
         IN  IF RLt(c, R(0)) THEN R(0) ELSE c
    ELSE <<1, 2>>
C7_Flips(outcomes) == Cardinality({i \in 1..(Len(outcomes) - 1) : outcomes[i] # outcomes[i + 1]})
C7_PatternConsistency(outcomes) ==
    IF Len(outcomes) >= 3
    THEN RSub(R(1), Rat(C7_Flips(outcomes), Len(outcomes)))
    ELSE <<1, 2>>
C7_Clamp01(x) == IF RLt(x, R(0)) THEN R(0) ELSE IF RGt(x, R(1)) THEN R(1) ELSE x
C7_Latencies == IF "times" \in DOMAIN performance_metrics THEN performance_metrics.times ELSE <<>>
C7_Weighted ==
    RAdd(RAdd(RMul(<<1, 2>>, performance_metrics.accuracy),
              RMul(<<1, 4>>, C7_LatencyConsistency(C7_Latencies))),
         RMul(<<1, 4>>, C7_PatternConsistency(recent_attempts)))

\* C6 witness: an out-of-range accuracy whose weighted sum exceeds 1 is clamped
C6_Witness ==
    /\ ConfidenceDone /\ recent_attempts # <<>>
    /\ RGt(performance_metrics.accuracy, R(1))
    /\ RGt(C7_Weighted, R(1))
    /\ ret.value = R(1)

\* C6 witness: an empty outcome list with a non-neutral window
C6_WitnessEmpty ==
    /\ ConfidenceDone /\ recent_attempts = <<>>
    /\ performance_metrics.accuracy = R(1) /\ Len(C7_Latencies) = 2
    /\ ret.value = <<1, 2>>

\* C7: for a non-empty outcome list the score is the clamp to [0,1] of
\* 0.5*accuracy + 0.25*latency_consistency + 0.25*pattern_consistency, with
\* latency_consistency = max(0, 1 - population variance/100) from 2 samples on
\* (else 0.5) and pattern_consistency = 1 - flips/length from 3 outcomes on
\* (else 0.5).
C7_ConfidenceFormula ==
    (ConfidenceDone /\ recent_attempts # <<>>) => ret.value = C7_Clamp01(C7_Weighted)

\* C7 witness: flips counted against the length, a variance that matters
C7_Witness ==
    /\ ConfidenceDone
    /\ Len(recent_attempts) >= 3 /\ C7_Flips(recent_attempts) = Len(recent_attempts) - 1
    /\ Len(C7_Latencies) = 2 /\ C7_Latencies[1] # C7_Latencies[2]
    /\ RGt(C7_LatencyConsistency(C7_Latencies), R(0))
    /\ RGt(ret.value, R(0)) /\ RLt(ret.value, R(1))

-----------------------------------------------------------------------------
(* Properties of detect_streak                                             *)

StreakDone == pc = "done" /\ fn = "detect_streak"

\* the trailing run: the largest k such that the last k outcomes are equal
C8_TrailingRun(outcomes) ==
    LET n == Len(outcomes)
        run(k) == \A i \in (n - k + 1)..n : outcomes[i] = outcomes[n]
    IN  CHOOSE k \in 1..n : run(k) /\ (k = n \/ ~run(k + 1))

\* C8: for a non-empty outcome list, length is the number of outcomes at the
\* end equal to the last one, kind is hot when the last outcome is correct and
\* cold otherwise, and significant = (length >= 3).
C8_StreakIsTrailingRun ==
    (StreakDone /\ recent_attempts # <<>>) =>
        /\ ret.value.length = C8_TrailingRun(recent_attempts)
        /\ ret.value.length \in 1..Len(recent_attempts)
        /\ ret.value.type = (IF recent_attempts[Len(recent_attempts)] THEN "hot" ELSE "cold")
        /\ ret.value.is_significant = (ret.value.length >= 3)
        /\ recent_attempts = <<TRUE, TRUE, TRUE, TRUE>> =>
              ret.value = [type |-> "hot", length |-> 4, is_significant |-> TRUE]
        /\ recent_attempts = <<FALSE, FALSE, FALSE>> =>
              ret.value = [type |-> "cold", length |-> 3, is_significant |-> TRUE]
        /\ recent_attempts = <<TRUE, FALSE, TRUE>> =>
              (ret.value.length = 1 /\ ~ret.value.is_significant)

\* C8 witness: a cold streak of exactly 3 after a correct answer
C8_Witness ==
    /\ StreakDone
    /\ recent_attempts = <<TRUE, FALSE, FALSE, FALSE>>
    /\ ret.value = [type |-> "cold", length |-> 3, is_significant |-> TRUE]

\* C9: on an empty outcome list detect_streak returns kind none, length 0 and
\* significant = false, and the encouragement generator that consumes the
\* streak reads the flag without failing.
C9_EmptyStreakNotSignificant ==
    (pc = "done" /\ recent_attempts = <<>>) =>
        /\ fn = "detect_streak" =>
              ret.value = [type |-> "none", length |-> 0, is_significant |-> FALSE]
        /\ fn = "get_encouragement" => ret.status = "return"

-----------------------------------------------------------------------------
(* Properties of get_dynamic_window                                        *)

WindowDone == pc = "done" /\ fn = "get_dynamic_window"

C10_Clamp(lo, hi, x) == IF x < lo THEN lo ELSE IF x > hi THEN hi ELSE x

\* C10: for a tier of {easy, medium, hard} and a confidence in [0,1] the window
\* is the clamp to [2,5] of 3 + tier index + floor((1 - confidence)*2); it is
\* at most 3 for (easy, 0.9) and at least 4 for (hard, 0.3).
C10_WindowFormula ==
    (WindowDone /\ current_difficulty \in Tiers) =>
        /\ ret.status = "return"
        /\ ret.value = C10_Clamp(2, 5, 3 + TierPos(current_difficulty)
                                         + RFloor(RMul(RSub(R(1), confidence_score), R(2))))
        /\ ret.value \in 2..5
        /\ (current_difficulty = "easy" /\ confidence_score = <<9, 10>>) => ret.value <= 3
        /\ (current_difficulty = "hard" /\ confidence_score = <<3, 10>>) => ret.value >= 4

\* C10 witness: the unclamped sum 3 + 2 + 1 for (hard, 0.3) is cut to 5
C10_Witness ==
    /\ WindowDone
    /\ current_difficulty = "hard" /\ confidence_score = <<3, 10>>
    /\ ret.value = 5

-----------------------------------------------------------------------------
(* Properties of the adaptation history                                     *)

\* a step that is one call of decide_next_difficulty whose outcome the caller holds
DecideStep == pc = "call" /\ pc' = "done" /\ fn = "decide_next_difficulty"

\* C11 as stated: every call that returns appends the decision it returns as
\* the new last record of the history.
C11_EveryReturnAppends ==
    [][(DecideStep /\ ret'.status = "return") =>
          adaptation_history' = Append(adaptation_history, ret'.decision_details)]_vars

\* C11, amended: a call that returns the decision of a window of at least 2
\* samples appends that decision as the new last record and leaves the earlier
\* records unchanged; every other call leaves the history as it was.
C11_ScoredReturnAppends ==
    [][/\ DecideStep =>
            adaptation_history' =
                IF ret'.status = "return" /\ performance_metrics.total_attempts >= 2
                THEN Append(adaptation_history, ret'.decision_details)
                ELSE adaptation_history
       /\ \/ adaptation_history' = adaptation_history
          \/ /\ Len(adaptation_history') = Len(adaptation_history) + 1
             /\ SubSeq(adaptation_history', 1, Len(adaptation_history)) = adaptation_history
      ]_vars

\* calls have been recorded in call order, the last being the call the
\* caller has just made
C11_Witness ==
    /\ Decided /\ ret.status = "return"
    /\ Len(adaptation_history) = 2
    /\ adaptation_history[2] = ret.decision_details
    /\ adaptation_history[1] # adaptation_history[2]

-----------------------------------------------------------------------------
(* Properties of the calls of the test suite                                *)

\* the tier name is none of easy, medium, hard in any letter case
C13_UnknownTier == Lower(current_difficulty) \notin {"easy", "medium", "hard"}

\* C13: a call with an unknown tier name fails with an invalid-input error
\* whatever the other arguments are; it returns no decision and no tier.
C13_UnknownTierFails ==
    (Decided /\ C13_UnknownTier) => ret.status = "ValueError"

\* the call of test case 2 (test_system.py, lines 186-196)
C14_Scenario ==
    /\ Decided
    /\ current_difficulty = "medium"
    /\ performance_metrics = low_perf
    /\ recent_attempts = <<FALSE, FALSE, TRUE>>
    /\ attempts_since_last_adjustment = 3

\* C14: from medium, a window of accuracy 0.4 over latencies 10, 12, 14 with
\* outcomes wrong, wrong, right and 3 attempts since the last change yields
\* the next tier easy, a decrease.
C14_LowPerformanceDecreases ==
    C14_Scenario =>
        /\ ret.status = "return"
        /\ ret.next_difficulty = "easy"
        /\ ret.decision_details.type = "decrease"

\* the call of test case 1 (test_system.py, lines 168-178)
C15_Scenario ==
    /\ Decided
    /\ current_difficulty = "easy"
    /\ performance_metrics = high_perf
    /\ recent_attempts = <<TRUE, TRUE, TRUE, TRUE>>
    /\ attempts_since_last_adjustment = 4

\* C15: from easy, a window of accuracy 0.95 over latencies 3.2, 3.5, 3.6, 3.7
\* with four right answers and 4 attempts since the last change yields the
\* next tier medium with a confidence above 0.7.
C15_HighPerformanceIncreases ==
    C15_Scenario =>
        /\ ret.status = "return"
        /\ ret.next_difficulty = "medium"
        /\ RGt(ret.decision_details.confidence, <<7, 10>>)

C15_Witness == C15_Scenario /\ ret.decision_details.type = "increase"

-----------------------------------------------------------------------------
(* Properties of generate_puzzle                                            *)

PuzzleDone == pc = "done" /\ fn = "generate_puzzle"

\* the integer a digit string shows
RECURSIVE ShownNumber(_)
ShownNumber(chars) ==
    IF chars = <<>> THEN 0
    ELSE 10 * ShownNumber(SubSeq(chars, 1, Len(chars) - 1))
         + ((CHOOSE d \in 1..10 : DigitChars[d] = chars[Len(chars)]) - 1)

\* what a reader sees in a question text: left operand, symbol, right operand
Shown(question) ==
    LET i == CHOOSE k \in 1..Len(question) :
                 question[k] = " " /\ \A j \in 1..(k - 1) : question[j] # " "
    IN  [left |-> ShownNumber(SubSeq(question, 1, i - 1)),
         symbol |-> question[i + 1],
         right |-> ShownNumber(SubSeq(question, i + 3, Len(question)))]

\* C16: the answer of a puzzle is the shown operator applied to the two shown
\* operands; in a division the shown divisor divides the shown dividend and
\* the answer is the quotient.
C16_AnswerMatchesQuestion ==
    PuzzleDone =>
        LET q == Shown(ret.value[1])
            answer == ret.value[2]
        IN  CASE q.symbol = "+" -> answer = q.left + q.right
              [] q.symbol = "-" -> answer = q.left - q.right
              [] q.symbol = "×" -> answer = q.left * q.right
              [] q.symbol = "÷" -> /\ q.right > 0
                                   /\ q.left % q.right = 0
                                   /\ answer * q.right = q.left
              [] OTHER -> FALSE

\* an easy subtraction whose operands were swapped, and a division
C16_Witness ==
    /\ PuzzleDone /\ current_difficulty = "easy"
    /\ ret.value = <<(<<"1", "0", " ", "-", " ", "3">>), 7>>
C16_WitnessDivision ==
    /\ PuzzleDone /\ current_difficulty = "hard"
    /\ ret.value = <<(<<"1", "0", "0", " ", "÷", " ", "1", "0">>), 10>>

\* both shown operands lie in lo..hi
C17_Operands(q, lo, hi) == q.left \in lo..hi /\ q.right \in lo..hi

\* a division built from a divisor and a quotient in 2..10
C17_Division(q, answer) ==
    q.right \in 2..10 /\ answer \in 2..10 /\ q.left = q.right * answer

C17_Easy(q, answer) ==
    q.symbol \in {"+", "-"} /\ C17_Operands(q, 1, 10) /\ answer >= 0

C17_Medium(q) ==
    /\ q.symbol \in {"+", "-", "×"}
    /\ IF q.symbol = "×" THEN C17_Operands(q, 2, 12) ELSE C17_Operands(q, 5, 50)

\* C17 as stated: a puzzle uses its tier's operators and operand ranges; at
\* hard every operator but the division takes its operands from 10..100.
C17_TierRangesAsStated ==
    (PuzzleDone /\ current_difficulty \in Tiers) =>
        LET q == Shown(ret.value[1])
            answer == ret.value[2]
        IN  CASE current_difficulty = "easy" -> C17_Easy(q, answer)
              [] current_difficulty = "medium" -> C17_Medium(q)
              [] current_difficulty = "hard" ->
                   /\ q.symbol \in {"+", "-", "×", "÷"}
                   /\ IF q.symbol = "÷" THEN C17_Division(q, answer)
                      ELSE C17_Operands(q, 10, 100)

\* C17, amended: as stated, but a multiplication takes its operands from
\* 2..12 at hard as it does at medium.
C17_TierRanges ==
    (PuzzleDone /\ current_difficulty \in Tiers) =>
        LET q == Shown(ret.value[1])
            answer == ret.value[2]
        IN  CASE current_difficulty = "easy" -> C17_Easy(q, answer)
              [] current_difficulty = "medium" -> C17_Medium(q)
              [] current_difficulty = "hard" ->
                   /\ q.symbol \in {"+", "-", "×", "÷"}
                   /\ CASE q.symbol = "÷" -> C17_Division(q, answer)
                        [] q.symbol = "×" -> C17_Operands(q, 2, 12)
                        [] OTHER -> C17_Operands(q, 10, 100)

\* a hard multiplication with operands below 10
C17_Witness ==
    /\ PuzzleDone /\ current_difficulty = "hard"
    /\ ret.value = <<(<<"2", " ", "×", " ", "3">>), 6>>

-----------------------------------------------------------------------------
(* Properties of the tracker's statistics                                   *)

BreakdownDone == pc = "done" /\ fn = "get_operation_breakdown"

C19_Categories == {"addition", "subtraction", "multiplication", "division", "other"}

\* the category totals add up to n
RECURSIVE C19_SumOfTotals(_, _)
C19_SumOfTotals(breakdown, ops) ==
    IF ops = {} THEN 0
    ELSE LET op == CHOOSE o \in ops : TRUE
         IN  breakdown[op].total + C19_SumOfTotals(breakdown, ops \ {op})

\* the attempts whose question shows the sign x
C19_Showing(log, x) == {i \in 1..Len(log) : \E k \in 1..Len(log[i].question) : log[i].question[k] = x}

\* every attempt is counted once, in one of the five categories
C19_CountedOnce ==
    BreakdownDone =>
        /\ DOMAIN ret.value \subseteq C19_Categories
        /\ C19_SumOfTotals(ret.value, DOMAIN ret.value) = Len(tracker_attempts)
        /\ \A op \in DOMAIN ret.value :
              ret.value[op].total >= 1 /\ ret.value[op].correct \in 0..ret.value[op].total

\* C19 as stated: every attempt is counted in exactly one category, and every
\* question that shows the multiplication sign is counted as multiplication.
C19_TimesAlwaysMultiplication ==
    /\ C19_CountedOnce
    /\ BreakdownDone =>
          LET times == C19_Showing(tracker_attempts, "×")
          IN  times # {} =>
                /\ "multiplication" \in DOMAIN ret.value
                /\ ret.value["multiplication"].total = Cardinality(times)

\* C19, amended: every attempt is counted in exactly one category, and a
\* question that shows the multiplication sign is counted as multiplication
\* exactly when it shows neither + nor -, whatever else it shows.
C19_TimesUnlessPlusOrMinus ==
    /\ C19_CountedOnce
    /\ BreakdownDone =>
          LET times == C19_Showing(tracker_attempts, "×")
                       \ (C19_Showing(tracker_attempts, "+") \cup C19_Showing(tracker_attempts, "-"))
          IN  IF times = {} THEN "multiplication" \notin DOMAIN ret.value
              ELSE /\ "multiplication" \in DOMAIN ret.value
                   /\ ret.value["multiplication"].total = Cardinality(times)

\* a log with 8 × 5, 8 × 4 ÷ 2 and 2 + 3 × 4: two multiplications, one addition
C19_Witness ==
    /\ BreakdownDone
    /\ Cardinality(C19_Showing(tracker_attempts, "×")) = 3
    /\ Cardinality(C19_Showing(tracker_attempts, "÷")) = 1
    /\ Cardinality(C19_Showing(tracker_attempts, "+")) = 1
    /\ DOMAIN ret.value = {"addition", "multiplication"}
    /\ ret.value["multiplication"].total = 2

VelocityDone == pc = "done" /\ fn = "get_learning_velocity"

\* right answers among the attempts lo..hi of the log
C18_Right(lo, hi) == Cardinality({i \in lo..hi : tracker_attempts[i].is_correct})

\* C18: with fewer than 4 attempts the trend is insufficient_data; otherwise,
\* with the log split at floor(n/2), it is improving when the accuracy of the
\* second half exceeds that of the first by more than 0.1, declining when the
\* first exceeds the second by more than 0.1, and stable otherwise, a
\* difference of exactly 0.1 included.
C18_TrendByHalves ==
    VelocityDone =>
        LET n == Len(tracker_attempts)
            n1 == n \div 2
            n2 == n - n1
            r1 == C18_Right(1, n1)
            r2 == C18_Right(n1 + 1, n)
            \* 10 * n1 * n2 * (acc2 - acc1)
            gain == 10 * (r2 * n1 - r1 * n2)
        IN  ret.value.trend =
                IF n < 4 THEN "insufficient_data"
                ELSE IF gain > n1 * n2 THEN "improving"
                ELSE IF -gain > n1 * n2 THEN "declining"
                ELSE "stable"

SessionLoaded == pc = "done" /\ fn = "load_session"

\* C20: for a tracker with at least one recorded attempt, load_session on the
\* path save_session returned yields a summary whose username is the tracker's
\* and whose total_questions is the number of attempts recorded when the
\* session was saved (no attempt is recorded between the two calls).
C20_RoundTrip ==
    (SessionLoaded /\ Len(tracker_attempts) >= 1) =>
        /\ ret.status = "return"
        /\ ~IsNone(ret.value)
        /\ ret.value.username = username
        /\ ret.value.total_questions = Len(tracker_attempts)

\* a session with a wrong answer, of a user whose name needs escapes, is
\* loaded back a second after it was saved under a two-digit timestamp
C20_Witness ==
    /\ SessionLoaded
    /\ Len(tracker_attempts) = MaxSessionLog
    /\ \E i \in 1..Len(tracker_attempts) : ~tracker_attempts[i].is_correct
    /\ Contains(username, "\\")
    /\ ~IsNone(ret.value)
    /\ ret.value.username = username
    /\ ret.value.session_duration = 1
    /\ clock = 11
    /\ DOMAIN files = {filepath_of(username, 10)}

-----------------------------------------------------------------------------
(* Properties of list_user_sessions                                         *)

SessionsListed == pc = "listed"

\* the paths of the sessions saved under a name
C21_SavedUnder(name) == {p \in DOMAIN files : files[p].saved_by = name}

\* C21: after any sequence of saves by any users, list_user_sessions(u) returns
\* exactly the paths of the sessions saved under u, each once, none of them
\* the session of another user, the most recently saved first.
C21_ListsOwnSessions ==
    SessionsListed =>
        LET sessions == ret.value
        IN  /\ {sessions[i] : i \in 1..Len(sessions)} = C21_SavedUnder(username)
            /\ Len(sessions) = Cardinality(C21_SavedUnder(username))
            /\ \A i, j \in 1..Len(sessions) :
                  i < j => files[sessions[i]].mtime > files[sessions[j]].mtime

-----------------------------------------------------------------------------
(* Properties of the performance log                                        *)

\* the last call was get_recent_performance(ret.n)
Queried == fn = "get_recent_performance" /\ "n" \in DOMAIN ret

\* the result of the query is the window of the last min(n, k) attempts
C23_WindowOfLast ==
    Queried =>
        LET k == Len(tracker_attempts)
            m == IF ret.n < k THEN ret.n ELSE k
            last == [i \in 1..m |-> tracker_attempts[k - m + i]]
            right == Cardinality({i \in 1..m : last[i].is_correct})
            w == ret.value
        IN  /\ w.total_attempts = m
            /\ w.attempts_list = [i \in 1..m |-> last[i].is_correct]
            /\ w.times = [i \in 1..m |-> last[i].time_taken]
            /\ RLe(R(0), w.accuracy) /\ RLe(w.accuracy, R(1))
            /\ IF k = 0
               THEN w.accuracy = R(0)
               ELSE /\ RMul(w.accuracy, R(m)) = R(right)
                    /\ RMul(w.avg_time, R(m)) = RSum(w.times)

\* C23: the log only grows at its end, a query leaves it as it is, and
\* get_recent_performance(n), n >= 1, after k attempts reports min(n, k)
\* samples, the outcomes and latencies of the last min(n, k) attempts from
\* oldest to newest, accuracy = right answers / samples, within [0, 1], and the
\* mean of those latencies; accuracy 0, no sample and empty lists for an empty
\* log.
C23_AppendOnlyLogFreshWindow ==
    /\ []C23_WindowOfLast
    /\ [][/\ Len(tracker_attempts') >= Len(tracker_attempts)
          /\ SubSeq(tracker_attempts', 1, Len(tracker_attempts)) = tracker_attempts
          /\ ("n" \in DOMAIN ret' => tracker_attempts' = tracker_attempts)]_vars

\* a window of 2 is taken from 3 attempts, the first right, the last wrong,
\* with different latencies
C23_Witness ==
    /\ Queried
    /\ ret.n = 2
    /\ Len(tracker_attempts) = 3
    /\ tracker_attempts[1].is_correct
    /\ ~tracker_attempts[3].is_correct
    /\ tracker_attempts[2].time_taken # tracker_attempts[3].time_taken
    /\ ret.value.total_attempts = 2
    /\ ret.value.accuracy = <<1, 2>>

-----------------------------------------------------------------------------
(* Properties of the session loop                                           *)

\* a pass of the loop
LoopPass == pc = "loop" /\ main'.question_count = main.question_count + 1

\* C22: a pass of the loop in which the answer is not a number (and not the
\* quit word) tells the user so and prompts again without any error: no
\* attempt is recorded, decide_next_difficulty is not called, the difficulty
\* and the adaptation history stay as they were.
C22_NonNumericAnswerChangesNothing ==
    [][(LoopPass /\ ret'.status = "continue") =>
          /\ pc' = "loop"
          /\ ret'.printed = "Please enter a number!"
          /\ tracker_attempts' = tracker_attempts
          /\ ~InList(ret'.calls, "decide_next_difficulty")
          /\ ~InList(ret'.calls, "record_attempt")
          /\ current_difficulty' = current_difficulty
          /\ adaptation_history' = adaptation_history]_vars

\* an answer that is not a number, given after the difficulty was raised
C22_Witness ==
    /\ pc = "loop"
    /\ ret.status = "continue"
    /\ Len(tracker_attempts) >= 3
    /\ adaptation_history # <<>>
    /\ current_difficulty = "medium"
    /\ main.attempts_since_adjustment = 1
    /\ main.last_adjustment_question = main.question_count - 1

\* the tiers in their order
C24_Rank(tier) == CASE tier = "easy" -> 1 [] tier = "medium" -> 2 [] tier = "hard" -> 3

\* C24: in a session that starts at easy, with every answer right and given
\* after the same time below 5 seconds, the difficulty is easy for the first
\* two answers, medium on the 3rd, hard from the 7th on, and never goes down.
C24_SteadySessionClimbs ==
    LET n == Len(tracker_attempts)
    IN  /\ pc \in {"loop", "ended"}
        /\ n <= 2 => current_difficulty = "easy"
        /\ n = 3 => current_difficulty = "medium"
        /\ n >= 3 => current_difficulty # "easy"
        /\ n >= 7 => current_difficulty = "hard"
        /\ \A i \in 1..n :
              /\ C24_Rank(tracker_attempts[i].difficulty) <= C24_Rank(current_difficulty)
              /\ \A j \in 1..i :
                    C24_Rank(tracker_attempts[j].difficulty)
                        <= C24_Rank(tracker_attempts[i].difficulty)
        /\ \A i \in 1..Len(adaptation_history) : adaptation_history[i].type # "decrease"

\* twelve right answers of 4.75 seconds each: asked at hard since the 8th
C24_Witness ==
    /\ Len(tracker_attempts) = MaxSteadyQuestions
    /\ \A i \in 1..Len(tracker_attempts) :
          /\ tracker_attempts[i].is_correct
          /\ tracker_attempts[i].time_taken = <<19, 4>>
    /\ tracker_attempts[3].difficulty = "easy"
    /\ tracker_attempts[4].difficulty = "medium"
    /\ tracker_attempts[8].difficulty = "hard"
    /\ current_difficulty = "hard"

-----------------------------------------------------------------------------
(* Properties of the decision on a window derived by the tracker           *)

TrackedDecision ==
    /\ pc = "done" /\ fn = "decide_next_difficulty"
    /\ tracker_attempts # <<>>
    /\ ret.status = "return"

\* C25: on a window that the tracker derives from at most 5 recorded attempts,
\* decide_next_difficulty does not raise the tier when the accuracy of the
\* window is at most 0.5 and does not lower it when the accuracy is at least
\* 0.8, for every tier, every latency and every attempts count.
C25_AccuracyBoundsTheDirection ==
    (pc = "done" /\ fn = "decide_next_difficulty" /\ tracker_attempts # <<>>) =>
        /\ Len(tracker_attempts) <= MaxWindowLen
        /\ performance_metrics = get_recent_performance(tracker_attempts, MaxWindowLen)
        /\ ret.status = "return"
        /\ RLe(performance_metrics.accuracy, <<1, 2>>)
              => TierPos(ret.next_difficulty) <= TierPos(current_difficulty)
        /\ RGe(performance_metrics.accuracy, <<4, 5>>)
              => TierPos(ret.next_difficulty) >= TierPos(current_difficulty)

\* four right answers in 2 seconds and a wrong one after 40 seconds, at medium
\* with 5 attempts since the last change: accuracy 0.8, and the tier is raised
C25_Witness ==
    /\ TrackedDecision
    /\ Len(tracker_attempts) = MaxWindowLen
    /\ performance_metrics.accuracy = <<4, 5>>
    /\ ~tracker_attempts[MaxWindowLen].is_correct
    /\ tracker_attempts[MaxWindowLen].time_taken = R(40)
    /\ current_difficulty = "medium"
    /\ attempts_since_last_adjustment = 5
    /\ ret.decision_details.type # "decrease"

\* two right answers in five, the last two wrong and slow, at medium with 5
\* attempts since the last change: accuracy 0.4, and the tier is lowered
C25_WitnessLow ==
    /\ TrackedDecision
    /\ Len(tracker_attempts) = MaxWindowLen
    /\ performance_metrics.accuracy = <<2, 5>>
    /\ current_difficulty = "medium"
    /\ attempts_since_last_adjustment = 5
    /\ ret.next_difficulty = "easy"

-----------------------------------------------------------------------------
(* Properties of the pace of the tier changes                              *)

\* the record appended by the pass, when there is one
C26_Appended(r) ==
    /\ Len(adaptation_history') = Len(adaptation_history) + 1
    /\ r = adaptation_history'[Len(adaptation_history')]

\* every recorded increase or decrease was decided on at least optimal_window
\* attempts, and no recorded window is below 3
C26_ChangesWaitForTheWindow ==
    \A i \in 1..Len(adaptation_history) :
        LET r == adaptation_history[i]
        IN  /\ r.optimal_window >= 3
            /\ r.type \in {"increase", "decrease"}
                  => r.attempts_evaluated >= r.optimal_window

\* a pass that changes the tier comes at least 3 questions after the change
\* before it (or after the start of the session)
C26_ThreeQuestionsBetweenChanges ==
    (LoopPass /\ current_difficulty' # current_difficulty) =>
        /\ main'.question_count - main.last_adjustment_question >= 3
        /\ main'.last_adjustment_question = main'.question_count

\* the evaluation at 2 attempts since the last change, made because the
\* confidence is above 0.8, leaves the tier as it is
C26_EarlyEvaluationMaintains ==
    (LoopPass /\ main.attempts_since_adjustment = 1) =>
        \A r \in {adaptation_history'[i] : i \in 1..Len(adaptation_history')} :
            C26_Appended(r) =>
                /\ r.attempts_evaluated = 2
                /\ RGt(r.confidence, <<4, 5>>)
                /\ r.type = "maintain"
                /\ current_difficulty' = current_difficulty

\* C26: every decision recorded as an increase or a decrease has
\* attempts_evaluated >= optimal_window >= 3; in the session loop a tier
\* change comes at least 3 questions after the one before it, and the early
\* evaluation at 2 attempts with confidence above 0.8 never changes the tier.
C26_TierChangesArePaced ==
    /\ []C26_ChangesWaitForTheWindow
    /\ [][C26_ThreeQuestionsBetweenChanges /\ C26_EarlyEvaluationMaintains]_vars

\* right answers from easy: an early evaluation on the 2nd answer maintains,
\* the tier is raised on the 3rd answer and again on the 7th
C26_Witness ==
    /\ main.question_count = 7
    /\ main.last_adjustment_question = 7
    /\ current_difficulty = "hard"
    /\ Len(adaptation_history) >= 3
    /\ adaptation_history[1].type = "maintain"
    /\ adaptation_history[1].attempts_evaluated = 2
    /\ RGt(adaptation_history[1].confidence, <<4, 5>>)
    /\ adaptation_history[2].type = "increase"
    /\ adaptation_history[2].attempts_evaluated = 3
    /\ adaptation_history[2].optimal_window = 3
    /\ adaptation_history[Len(adaptation_history)].type = "increase"
    /\ adaptation_history[Len(adaptation_history)].new_difficulty = "hard"

-----------------------------------------------------------------------------
(* Properties of the attempts count given to the engine                    *)

\* the attempts at the end of the log that were asked at the tier: those
\* recorded since the tier last changed, or since the start of the session
RECURSIVE C27_RecordedSinceChange(_, _)
C27_RecordedSinceChange(log, tier) ==
    IF log = <<>> \/ log[Len(log)].difficulty # tier THEN 0
    ELSE 1 + C27_RecordedSinceChange(SubSeq(log, 1, Len(log) - 1), tier)

\* C27: in every pass of the loop that calls decide_next_difficulty, the
\* attempts count it is given equals the number of attempts recorded in the
\* log since the last tier change (or since the start of the session).
C27_CountIsRecordedAttempts ==
    [][(LoopPass /\ InList(ret'.calls, "decide_next_difficulty")) =>
          attempts_since_last_adjustment'
              = C27_RecordedSinceChange(tracker_attempts', current_difficulty)]_vars

====
